---- MODULE Spec2Model ----
(***************************************************************************)
(* Model of the document assembly pipeline of Product-Presenter            *)
(* (src/js/pdf-generator.js): showPdfFormScreen and its nested callbacks   *)
(* (cover page, drawImage / tryLoadOptimizedImage, drawNextRow, the        *)
(* page-numbering pass and delivery) and mergeWithTipTail.                 *)
(*                                                                         *)
(* The browser runs one handler at a time.  phase = "rows" means that the  *)
(* synchronous chain of drawNextRow calls is on the stack (the next call   *)
(* of drawNextRow is the next step); no event handler can start then.      *)
(***************************************************************************)
EXTENDS Integers, Sequences, FiniteSets, TLC

\* ---------------------------------------------------------------- bounds
MaxRows == 5          \* longest stored selection of text-only rows
MaxMixedRows == 2     \* longest stored selection that may hold any entry
MaxLegacyRows == 2    \* longest stored selection in the legacy 'selection' key
MaxTipPages == 2      \* pages of an externally supplied tip / tail document
MaxPrimaryPages == 2  \* content pages of a primary handed to the merger on its own
MaxImageRows == 2     \* longest stored selection of rows with image references
MaxLogoRows == 1      \* longest stored selection exported with a customer logo
MaxQuantity == 3      \* largest quantity of a row whose cells are drawn
MaxSide == 9          \* largest width and height of a decoded image
MaxGridRows == 2      \* most rows of the grid
MaxStored == 2        \* most entries of the store that the grid adds to
MaxIds == 2           \* identifiers that Utils.generateId hands out
MaxGridQuantity == 2  \* largest quantity typed into a row

\* ------------------------------------------------------- program constants
maxRowsPerPage == 4
NumProxies == 2

\* --------------------------------------------------------------- the data
NoProduct == [null |-> TRUE, OrderCode |-> "", Image_URL |-> "", Diagram_URL |-> ""]
TextProduct == [null |-> FALSE, OrderCode |-> "K1", Image_URL |-> "", Diagram_URL |-> ""]
ImageProduct == [null |-> FALSE, OrderCode |-> "B1", Image_URL |-> "u1", Diagram_URL |-> "u2"]
\* a product without an image, as saveRowToStorage stores it
PlaceholderProduct ==
  [null |-> FALSE, OrderCode |-> "P1", Image_URL |-> "assets/no-image.png", Diagram_URL |-> ""]

NullEntry == [null |-> TRUE, product |-> NoProduct, room |-> ""]
Entry(p, r) == [null |-> FALSE, product |-> p, room |-> r]

\* what the selection store may hold under CONFIG.STORAGE_KEYS.SELECTED_PRODUCTS
StoreEntries ==
  {NullEntry, Entry(TextProduct, "Kitchen"), Entry(TextProduct, "2"),
   Entry(ImageProduct, "Bath"), Entry(NoProduct, "Kitchen")}

NullItem ==
  [null |-> TRUE, hasProduct |-> FALSE, OrderCode |-> "", Image_URL |-> "",
   Diagram_URL |-> "", Room |-> "", src |-> 0]
Item(p, r, i) ==
  [null |-> FALSE, hasProduct |-> ~p.null, OrderCode |-> p.OrderCode,
   Image_URL |-> p.Image_URL, Diagram_URL |-> p.Diagram_URL, Room |-> r, src |-> i]

\* what the legacy 'selection' key may hold: flat items, or null
\* the entries without images, for the long selections
TextEntries ==
  {Entry(TextProduct, "Kitchen"), Entry(TextProduct, "2"), Entry(NoProduct, "Bath")}

\* the entries with image references
ImageEntries == {Entry(ImageProduct, "Bath"), Entry(PlaceholderProduct, "Kitchen")}

LegacyEntries ==
  {NullEntry, Entry(TextProduct, "Kitchen"), Entry(TextProduct, "2"),
   Entry(ImageProduct, "Bath")}

SeqsUpTo(S, n) == UNION {[1..k -> S] : k \in 0..n}

\* ------------------------------------------------------------- sequences
RECURSIVE Flatten(_)
Flatten(ss) == IF ss = <<>> THEN <<>> ELSE Head(ss) \o Flatten(Tail(ss))

RECURSIVE SelectIdx(_, _, _)
\* the sub-sequence of s of the elements e with e.Room = r, in order
SelectIdx(s, r, i) ==
  IF i > Len(s) THEN <<>>
  ELSE IF s[i].Room = r THEN <<s[i]>> \o SelectIdx(s, r, i + 1)
       ELSE SelectIdx(s, r, i + 1)

RECURSIVE FirstAppearance(_, _)
\* the Room values of s in the order of their first occurrence
FirstAppearance(s, seen) ==
  IF s = <<>> THEN <<>>
  ELSE IF Head(s).Room \in seen THEN FirstAppearance(Tail(s), seen)
       ELSE <<Head(s).Room>> \o FirstAppearance(Tail(s), seen \cup {Head(s).Room})

\* ------------------------------------------------- Object.keys(byRoom)
\* A property name that is a canonical array index ("0", "1", ...) is an
\* integer key of a JavaScript object.
ArrayIndexValue(k) ==
  CASE k = "0" -> 0 [] k = "1" -> 1 [] k = "2" -> 2 [] k = "3" -> 3
    [] k = "10" -> 10 [] OTHER -> -1

IsArrayIndex(k) == ArrayIndexValue(k) >= 0

RECURSIVE SortByIndex(_)
SortByIndex(S) ==
  IF S = {} THEN <<>>
  ELSE LET m == CHOOSE k \in S : \A j \in S : ArrayIndexValue(k) <= ArrayIndexValue(j)
       IN <<m>> \o SortByIndex(S \ {m})

\* roomNames = Object.keys(byRoom): integer keys first, in ascending numeric
\* order, then the other keys in the order in which they were created.
ObjectKeys(created) ==
  LET ints == {created[i] : i \in {j \in 1..Len(created) : IsArrayIndex(created[j])}}
      NotIndex(k) == ~IsArrayIndex(k)
  IN SortByIndex(ints) \o SelectSeq(created, NotIndex)

\* ------------------------------------------------------ generateImageHash
\* imageUrl.charCodeAt(i), for the URLs of the model
CharCodes(url) ==
  CASE url = "u1" -> <<117, 49>>
    [] url = "u2" -> <<117, 50>>
    [] url = "assets/no-image.png" ->
         <<97, 115, 115, 101, 116, 115, 47, 110, 111, 45, 105, 109, 97, 103, 101, 46,
           112, 110, 103>>
    [] OTHER -> <<>>

\* A 32-bit integer is kept as <<high half, low half>>, each in 0..65535.
\* One round of the loop: hash = ((hash << 5) - hash) + char; hash & hash,
\* which is 31 * hash + char in 32 bits.
HashStep(h, char) ==
  LET lo == 31 * h[2] + char
      hi == 31 * h[1] + (lo \div 65536)
  IN <<hi % 65536, lo % 65536>>

RECURSIVE HashChars(_, _)
HashChars(h, chars) ==
  IF chars = <<>> THEN h ELSE HashChars(HashStep(h, Head(chars)), Tail(chars))

\* Math.abs of the signed 32-bit value
Abs32(h) ==
  IF h[1] < 32768 THEN h
  ELSE IF h[2] = 0 THEN <<(65536 - h[1]) % 65536, 0>>
       ELSE <<65535 - h[1], 65536 - h[2]>>

\* lines 2071-2083; toString(36) writes the number, two numbers never alike
generateImageHash(imageUrl) == Abs32(HashChars(<<0, 0>>, CharCodes(imageUrl)))

\* the alias under which doc.addImage stores an image; NoAlias: the call
\* names none
NoAlias == <<>>
Alias(imgUrl) == <<"img", generateImageHash(imgUrl)>>

\* ------------------------------------------------------- the jsPDF document
\* A document is a sequence of pages, page 1 being the cover; a page is the
\* sequence of the drawing operations applied to it.
Op(op, src, slot, room, which, n, m) ==
  [op |-> op, src |-> src, slot |-> slot, room |-> room, which |-> which, n |-> n, m |-> m,
   alias |-> NoAlias]

\* doc.text / doc.addImage / doc.rect draw on the current page, which is the
\* last page (doc.addPage and the numbering pass both leave it there)
AddOp(d, o) == [d EXCEPT ![Len(d)] = Append(@, o)]

AddPage(d) == Append(d, <<>>)

PdfHeaderOp == Op("pdfHeader", 0, 0, "", "", 0, 0)

\* the loads of window.Image objects that are outstanding
CoverLogoLoad == <<"logo", 0, "cover", 0>>
SeimaLogoLoad == <<"logo", 0, "seima", 0>>
WhiteLogoLoad == <<"logo", 0, "white", 0>>
CustomerLogoLoad == <<"logo", 0, "customer", 0>>
RowLoad(idx, which, proxy) == <<"row", idx, which, proxy>>

VARIABLES
  selectedProducts,   \* localStorage[CONFIG.STORAGE_KEYS.SELECTED_PRODUCTS]
  storedSelection,    \* localStorage['selection'] (legacy format)
  customerLogo,       \* localStorage['customerLogo'] is set
  emailCompatible,    \* userDetails.emailCompatible
  tipTailSettings,    \* localStorage['tipTailSettings']
  phase,              \* where the export is
  doc,                \* the jsPDF document being drawn
  selection,          \* the rows read from the store at export start
  rowsToDraw, rowIdx, pageRow,
  attempt,            \* drawImage's closure: which image, proxyIndex
  frame,              \* the img.onload activation under the chain of drawNextRow calls
  loads,              \* outstanding image loads
  skipped,            \* <<src, which, reason>> of every image that was given up
  stats,              \* imageOptimizationStats
  pdfBlob,            \* doc.output('blob'): the finalized primary document
  pdfSize,            \* userDetails.pdfSize against the 15 MB limit of email
  delivered,          \* what was handed to the delivery sinks
  notices,            \* warnings, alerts and offers shown
  userDetails,        \* userDetails.excludePrice and .excludeQty
  priceRow,           \* row.item of the row whose text is drawn
  cells,              \* the price, quantity and total cells drawn for it
  titles,             \* the column titles drawn by drawPDFHeader
  imgSize,            \* img.width, img.height and maxImageWidth of a decoded image
  canvas,             \* canvas.width and canvas.height
  gridRows,           \* ProductGridManager.gridRows
  nextId              \* the identifiers that Utils.generateId has handed out

vars ==
  <<selectedProducts, storedSelection, customerLogo, emailCompatible,
    tipTailSettings, phase, doc, selection, rowsToDraw, rowIdx, pageRow, attempt,
    frame, loads, skipped, stats, pdfBlob, pdfSize, delivered, notices,
    userDetails, priceRow, cells, titles, imgSize, canvas, gridRows, nextId>>

sheetVars == <<userDetails, priceRow, cells, titles>>
canvasVars == <<imgSize, canvas>>
gridVars == <<gridRows, nextId>>
\* what the export of a stored selection leaves alone
otherVars == <<sheetVars, canvasVars, gridVars>>

storeVars == <<selectedProducts, storedSelection, customerLogo, emailCompatible>>

NoSettings == [tipAsset |-> "", tipUpload |-> "", tailAsset |-> "", tailUpload |-> ""]
NoAttempt == [which |-> "none", proxyIndex |-> 0]
\* no img.onload is on the stack: an exception that leaves drawNextRow is
\* caught by nobody
NoFrame == [row |-> 0, slot |-> 0, which |-> "none", stage |-> 0]
ZeroStats == [totalImages |-> 0, optimizedImages |-> 0, failedImages |-> 0]

NoFlags == [excludePrice |-> FALSE, excludeQty |-> FALSE]
NoPriceRow == [RRP_INCGST |-> <<>>, Quantity |-> 0]
NoCells == [drawn |-> FALSE, price |-> <<>>, qty |-> <<>>, total |-> <<>>]
NoSize == [width |-> 0, height |-> 0]

\* no row text, no header, no canvas and no grid yet
OtherIdle ==
  /\ userDetails = NoFlags
  /\ priceRow = NoPriceRow
  /\ cells = NoCells
  /\ titles = {}
  /\ imgSize = [width |-> 0, height |-> 0, maxWidth |-> 0]
  /\ canvas = NoSize
  /\ gridRows = <<>>
  /\ nextId = 1

Idle ==
  /\ phase = "idle"
  /\ tipTailSettings = NoSettings
  /\ doc = <<>>
  /\ selection = <<>>
  /\ rowsToDraw = <<>>
  /\ rowIdx = 0
  /\ pageRow = 0
  /\ attempt = NoAttempt
  /\ frame = NoFrame
  /\ loads = {}
  /\ skipped = {}
  /\ stats = ZeroStats
  /\ pdfBlob = <<>>
  /\ pdfSize = "none"
  /\ delivered = <<>>
  /\ notices = {}

\* whether localStorage['customerLogo'] is set, for the stored selection
LogoChoices ==
  IF Len(selectedProducts) + Len(storedSelection) <= MaxLogoRows THEN BOOLEAN ELSE {FALSE}

Init ==
  /\ \/ /\ selectedProducts \in SeqsUpTo(StoreEntries, MaxMixedRows)
                                  \cup SeqsUpTo(TextEntries, MaxRows)
        /\ storedSelection = <<>>
     \/ /\ selectedProducts = <<>>
        /\ storedSelection \in SeqsUpTo(LegacyEntries, MaxLegacyRows)
  /\ customerLogo \in LogoChoices
  /\ emailCompatible \in BOOLEAN
  /\ Idle
  /\ OtherIdle

\* ------------------------------------------------- showPdfFormScreen
\* lines 139-169: the processing notification, then the first logo load
showPdfFormScreen ==
  /\ phase = "idle"
  /\ phase' = "coverLogo"
  /\ loads' = {CoverLogoLoad}
  /\ UNCHANGED <<storeVars, otherVars, frame, tipTailSettings, doc, selection, rowsToDraw,
                 rowIdx, pageRow, attempt, skipped, stats, pdfBlob, pdfSize, delivered, notices>>

\* lines 188-194: selectedProducts.map(item => ({...item.product, Room: item.room, ...}))
\* reading item.product of a null item throws; spreading a null product adds nothing
ConvertNewFormat(sp) == [i \in 1..Len(sp) |-> Item(sp[i].product, sp[i].room, i)]

LegacyItems(st) ==
  [i \in 1..Len(st) |->
     IF st[i].null THEN NullItem ELSE Item(st[i].product, st[i].room, i)]

HasNull(s) == \E i \in 1..Len(s) : s[i].null

\* lines 181-210: what the callback of the first logo load reads and groups.
\* "throws": a TypeError leaves the callback (item.product or item.Room of null)
ReadSelection ==
  IF Len(selectedProducts) > 0
  THEN IF HasNull(selectedProducts)
       THEN [outcome |-> "throws", selection |-> <<>>]
       ELSE [outcome |-> "ok", selection |-> ConvertNewFormat(selectedProducts)]
  ELSE IF Len(storedSelection) = 0
       THEN [outcome |-> "empty", selection |-> <<>>]
       ELSE IF HasNull(storedSelection)
            THEN [outcome |-> "throws", selection |-> <<>>]
            ELSE [outcome |-> "ok", selection |-> LegacyItems(storedSelection)]

\* lines 169-267: the callback of loadImageAsDataURL('assets/seima-logo.png')
coverLogoLoaded ==
  /\ phase = "coverLogo"
  /\ CoverLogoLoad \in loads
  /\ LET r == ReadSelection IN
     IF r.outcome = "throws"
     THEN /\ phase' = "crashed"
          /\ loads' = loads \ {CoverLogoLoad}
          /\ UNCHANGED <<doc, selection, notices>>
     ELSE IF r.outcome = "empty"
     THEN /\ phase' = "noProducts"
          /\ notices' = notices \cup {"alert: No products selected."}
          /\ loads' = loads \ {CoverLogoLoad}
          /\ UNCHANGED <<doc, selection>>
     ELSE /\ phase' = "seimaLogo"
          /\ selection' = r.selection
          /\ doc' = << <<Op("logoBlock", 0, 0, "", "", 0, 0)>> >>
          /\ loads' = (loads \ {CoverLogoLoad}) \cup {SeimaLogoLoad}
                         \cup (IF customerLogo THEN {CustomerLogoLoad} ELSE {})
          /\ UNCHANGED notices
  /\ UNCHANGED <<storeVars, otherVars, frame, tipTailSettings, rowsToDraw, rowIdx, pageRow,
                 attempt, skipped, stats, pdfBlob, pdfSize, delivered>>

\* lines 267-359: the rest of the cover, then doc.addPage() and the third load
seimaLogoLoaded ==
  /\ phase = "seimaLogo"
  /\ SeimaLogoLoad \in loads
  /\ phase' = "whiteLogo"
  /\ doc' = AddPage(AddOp(doc, Op("coverBody", 0, 0, "", "", 0, 0)))
  /\ loads' = (loads \ {SeimaLogoLoad}) \cup {WhiteLogoLoad}
  /\ UNCHANGED <<storeVars, otherVars, frame, tipTailSettings, selection, rowsToDraw, rowIdx,
                 pageRow, attempt, skipped, stats, pdfBlob, pdfSize, delivered, notices>>

\* mutant: the room header goes to the second row of the room
RoomRows_secondRow(sel, room, rIdx) ==
  LET items == SelectIdx(sel, room, 1)
      row(i) == [item |-> items[i], room |-> room, rIdx |-> rIdx, iIdx |-> i - 1,
                 isFirstInRoom |-> (i - 1 = 1), roomCount |-> Len(items)]
  IN SelectSeq([i \in 1..Len(items) |-> row(i)], LAMBDA r : ~r.item.null)

\* lines 582-605: rowsToDraw, room by room in the order of Object.keys(byRoom)
RoomRows(sel, room, rIdx) ==
  LET items == SelectIdx(sel, room, 1)
      NotNull(it) == ~it.null
      row(i) == [item |-> items[i], room |-> room, rIdx |-> rIdx, iIdx |-> i - 1,
                 isFirstInRoom |-> (i - 1 = 0), roomCount |-> Len(items)]
  IN SelectSeq([i \in 1..Len(items) |-> row(i)], LAMBDA r : NotNull(r.item))

BuildRowsToDraw(sel) ==
  LET roomNames == ObjectKeys(FirstAppearance(sel, {}))
  IN Flatten([k \in 1..Len(roomNames) |-> RoomRows(sel, roomNames[k], k - 1)])

\* lines 359-631 and 918: the callback of the white logo load, up to the first
\* call of drawNextRow
whiteLogoLoaded ==
  /\ phase = "whiteLogo"
  /\ WhiteLogoLoad \in loads
  /\ phase' = "rows"
  /\ loads' = loads \ {WhiteLogoLoad}
  /\ rowsToDraw' = BuildRowsToDraw(selection)
  /\ stats' = ZeroStats
  /\ rowIdx' = 0
  /\ pageRow' = 0
  /\ UNCHANGED <<storeVars, otherVars, frame, tipTailSettings, doc, selection, attempt,
                 skipped, pdfBlob, pdfSize, delivered, notices>>

\* loadImageAsDataURL (lines 961-1001) sets no onerror handler and no timer: a
\* logo that fails to load, or never answers, calls nothing
logoLoadFails ==
  /\ \E l \in {CoverLogoLoad, SeimaLogoLoad, WhiteLogoLoad} :
        /\ l \in loads
        /\ loads' = loads \ {l}
  /\ UNCHANGED <<storeVars, otherVars, frame, tipTailSettings, phase, doc, selection,
                 rowsToDraw, rowIdx, pageRow, attempt, skipped, stats, pdfBlob, pdfSize,
                 delivered, notices>>

\* lines 240-261: img.onload of the customer logo draws on the current page of
\* doc, whenever the load completes (no handler can start while the chain of
\* drawNextRow calls is on the stack).  The logo lies apart from everything
\* else on a page: its place among the operations of the page is not kept,
\* it is listed first.
customerLogoOnload ==
  /\ CustomerLogoLoad \in loads
  /\ phase # "rows"
  /\ doc' = [doc EXCEPT ![Len(doc)] = <<Op("customerLogo", 0, 0, "", "", 0, 0)>> \o @]
  /\ loads' = loads \ {CustomerLogoLoad}
  /\ UNCHANGED <<storeVars, otherVars, frame, tipTailSettings, phase, selection, rowsToDraw,
                 rowIdx, pageRow, attempt, skipped, stats, pdfBlob, pdfSize, delivered, notices>>

\* the customer logo has no onerror handler either
customerLogoFails ==
  /\ CustomerLogoLoad \in loads
  /\ phase # "rows"
  /\ loads' = loads \ {CustomerLogoLoad}
  /\ UNCHANGED <<storeVars, otherVars, frame, tipTailSettings, phase, doc, selection,
                 rowsToDraw, rowIdx, pageRow, attempt, skipped, stats, pdfBlob, pdfSize,
                 delivered, notices>>

\* ------------------------------------------------------------ drawing a row
\* The part of the export state that the synchronous code of one row changes.
\* waiting: the image ("product", "diagram") whose load was started, or "none"
\* when the row's text was drawn and the row is complete.
RowState(d, st, sk, w) == [doc |-> d, stats |-> st, skipped |-> sk, waiting |-> w]

\* lines 820-911: the text columns of the row
drawText(row, slot, s) ==
  RowState(AddOp(s.doc, Op("text", row.item.src, slot, row.room, "", 0, 0)),
           s.stats, s.skipped, "none")

ImageUrl(row, which) ==
  IF which = "product" THEN row.item.Image_URL ELSE row.item.Diagram_URL

\* lines 389-416: the part of drawImage that runs before any load; cb is the
\* continuation of lines 817-819: after the product image the diagram image,
\* after the diagram image the text
RECURSIVE drawImage(_, _, _, _)
\* mutant: the test of userDetails.emailCompatible is missing
drawImage_loadsInEmailMode(which, row, slot, s) ==
  LET cb(u) == IF which = "product" THEN drawImage("diagram", row, slot, u)
               ELSE drawText(row, slot, u)
  IN IF ImageUrl(row, which) = ""
     THEN cb(s)
     ELSE [s EXCEPT !.stats = [s.stats EXCEPT !.totalImages = @ + 1], !.waiting = which]

drawImage(which, row, slot, s) ==
  LET cb(t) == IF which = "product" THEN drawImage("diagram", row, slot, t)
               ELSE drawText(row, slot, t)
      counted == [s.stats EXCEPT !.totalImages = @ + 1]
  IN IF ImageUrl(row, which) = ""
     THEN cb(s)
     ELSE IF emailCompatible
          THEN cb([s EXCEPT !.stats = [counted EXCEPT !.failedImages = @ + 1]])
          ELSE [s EXCEPT !.stats = counted, !.waiting = which]

\* mutant: the continuation of the product image goes straight to the text
imageCallback_skipsDiagram(which, row, slot, s) == drawText(row, slot, s)

\* the continuation cb that a handler of the image `which` calls
imageCallback(which, row, slot, s) ==
  IF which = "product" THEN drawImage("diagram", row, slot, s)
  ELSE drawText(row, slot, s)

\* mutant: the page break comes one row late
NeedsNewPage_late(pr) == pr > maxRowsPerPage

\* line 788
NeedsNewPage(pr) == pr >= maxRowsPerPage

\* what the code does once the synchronous part of a row has run (ls: the
\* loads that are outstanding without this row's): either an
\* image load is outstanding (tryLoadOptimizedImage, lines 428-577), or the row
\* is complete (lines 912-914: rowIdx++, pageRow++, drawNextRow())
Settle(s, pr, ls) ==
  /\ doc' = s.doc
  /\ stats' = s.stats
  /\ skipped' = s.skipped
  /\ IF s.waiting # "none"
     THEN /\ phase' = "image"
          /\ attempt' = [which |-> s.waiting, proxyIndex |-> 0]
          /\ loads' = ls \cup {RowLoad(rowIdx, s.waiting, 0)}
          /\ rowIdx' = rowIdx
          /\ pageRow' = pr
     ELSE /\ phase' = "rows"
          /\ attempt' = NoAttempt
          /\ loads' = ls
          /\ rowIdx' = rowIdx + 1
          /\ pageRow' = pr + 1

\* the activation f stays under the chain of calls while the chain goes on; a
\* chain that ends in the start of a load returns through it
StillOnStack(f, s) == IF s.waiting = "none" THEN f ELSE NoFrame

\* lines 787-819: one call of drawNextRow that finds a row to draw
drawNextRow ==
  /\ phase = "rows"
  /\ rowIdx < Len(rowsToDraw)
  /\ LET brk == NeedsNewPage(pageRow)
         doc1 == IF brk THEN AddOp(AddPage(doc), PdfHeaderOp) ELSE doc
         pr == IF brk THEN 0 ELSE pageRow
         row == rowsToDraw[rowIdx + 1]
         doc2 == IF row.isFirstInRoom
                 THEN AddOp(doc1, Op("roomHeader", row.item.src, pr, row.room, "",
                                     row.roomCount, 0))
                 ELSE doc1
     IN IF row.item.null
        THEN /\ notices' = notices \cup {"warn: Skipping invalid row"}
             /\ rowIdx' = rowIdx + 1
             /\ pageRow' = pr
             /\ doc' = doc1
             /\ UNCHANGED <<phase, attempt, frame, loads, skipped, stats>>
        ELSE LET s == drawImage("product", row, pr, RowState(doc2, stats, skipped, "none"))
             IN /\ Settle(s, pr, loads)
                /\ frame' = StillOnStack(frame, s)
                /\ UNCHANGED notices
  /\ UNCHANGED <<storeVars, otherVars, tipTailSettings, selection, rowsToDraw, pdfBlob, pdfSize,
                 delivered>>

CurrentRow == rowsToDraw[rowIdx + 1]

CurrentLoad == RowLoad(rowIdx, attempt.which, attempt.proxyIndex)

\* the try block of img.onload in which cb is called: 1 the inner try (line
\* 505), 2 the try of the fallback (line 514), 3 the catch of the fallback
\* (line 518), 4 the outer catch (line 524)
OnloadFrame(result) ==
  [row |-> rowIdx, slot |-> pageRow, which |-> attempt.which,
   stage |-> CASE result = "optimized" -> 1 [] result = "fallback" -> 2 [] OTHER -> 3]

\* lines 436-526: img.onload.  The image is re-encoded and added under its
\* alias ("optimized"); if that throws it is added as it is, with no alias
\* ("fallback"); if that throws too nothing is added ("failed").  Then cb.
\* The field alias of the image operation is the alias of the call.
imgOnload ==
  /\ phase = "image"
  /\ CurrentLoad \in loads
  /\ \E result \in {"optimized", "fallback", "failed"} :
       LET row == CurrentRow
           imgOp == [Op("image", row.item.src, pageRow, row.room, attempt.which, 0, 0)
                      EXCEPT !.alias = IF result = "optimized"
                                       THEN Alias(ImageUrl(row, attempt.which))
                                       ELSE NoAlias]
           s == IF result = "failed"
                THEN RowState(doc, [stats EXCEPT !.failedImages = @ + 1],
                              skipped \cup {<<row.item.src, attempt.which, "encode">>}, "none")
                ELSE RowState(AddOp(doc, imgOp), [stats EXCEPT !.optimizedImages = @ + 1],
                              skipped, "none")
           t == imageCallback(attempt.which, row, pageRow, s)
       IN /\ Settle(t, pageRow, loads \ {CurrentLoad})
          /\ frame' = StillOnStack(OnloadFrame(result), t)
  /\ UNCHANGED <<storeVars, otherVars, tipTailSettings, selection, rowsToDraw, pdfBlob, pdfSize,
                 delivered, notices>>

\* mutant: one attempt more than there are relays; tryLoadOptimizedImage then
\* loads the image URL itself (line 570-573 leaves proxiedUrl = imgUrl)
relayFailed_offByOne ==
  IF attempt.proxyIndex + 1 <= NumProxies
  THEN /\ phase' = "retry"
       /\ attempt' = [attempt EXCEPT !.proxyIndex = @ + 1]
       /\ loads' = loads \ {CurrentLoad}
       /\ UNCHANGED <<doc, stats, skipped, rowIdx, pageRow>>
  ELSE LET row == CurrentRow
           s == RowState(doc, [stats EXCEPT !.failedImages = @ + 1],
                         skipped \cup {<<row.item.src, attempt.which, "relays">>}, "none")
       IN Settle(imageCallback(attempt.which, row, pageRow, s), pageRow, loads \ {CurrentLoad})

\* mutant: a failed attempt is not ended before the next relay is tried
relayFailed_keepsLoad ==
  IF attempt.proxyIndex + 1 < NumProxies
  THEN /\ phase' = "retry"
       /\ attempt' = [attempt EXCEPT !.proxyIndex = @ + 1]
       /\ loads' = loads
       /\ UNCHANGED <<doc, stats, skipped, rowIdx, pageRow>>
  ELSE LET row == CurrentRow
           s == RowState(doc, [stats EXCEPT !.failedImages = @ + 1],
                         skipped \cup {<<row.item.src, attempt.which, "relays">>}, "none")
       IN Settle(imageCallback(attempt.which, row, pageRow, s), pageRow, loads \ {CurrentLoad})

\* mutant: after the last relay the image is given up without calling cb
relayFailed_noCallback ==
  IF attempt.proxyIndex + 1 < NumProxies
  THEN /\ phase' = "retry"
       /\ attempt' = [attempt EXCEPT !.proxyIndex = @ + 1]
       /\ loads' = loads \ {CurrentLoad}
       /\ UNCHANGED <<doc, stats, skipped, rowIdx, pageRow>>
  ELSE /\ skipped' = skipped \cup {<<CurrentRow.item.src, attempt.which, "relays">>}
       /\ stats' = [stats EXCEPT !.failedImages = @ + 1]
       /\ loads' = loads \ {CurrentLoad}
       /\ UNCHANGED <<phase, attempt, doc, rowIdx, pageRow>>

\* lines 535-545 and 557-567: what img.onerror and the 3000 ms timer do alike:
\* the next relay after 200 ms, or, after the last relay, give the image up
\* and call cb
relayFailed ==
  IF attempt.proxyIndex + 1 < NumProxies
  THEN /\ phase' = "retry"
       /\ attempt' = [attempt EXCEPT !.proxyIndex = @ + 1]
       /\ loads' = loads \ {CurrentLoad}
       /\ UNCHANGED <<doc, stats, skipped, rowIdx, pageRow>>
  ELSE LET row == CurrentRow
           s == RowState(doc, [stats EXCEPT !.failedImages = @ + 1],
                         skipped \cup {<<row.item.src, attempt.which, "relays">>}, "none")
       IN Settle(imageCallback(attempt.which, row, pageRow, s), pageRow, loads \ {CurrentLoad})

\* lines 528-546: img.onerror
imgOnerror ==
  /\ phase = "image"
  /\ CurrentLoad \in loads
  /\ relayFailed
  /\ frame' = NoFrame
  /\ UNCHANGED <<storeVars, otherVars, tipTailSettings, selection, rowsToDraw, pdfBlob, pdfSize,
                 delivered, notices>>

\* lines 548-568: the 3000 ms timer of the attempt: the relay did not answer.
\* It empties img.src and drops the handlers, which ends the load.
imgTimeout ==
  /\ phase = "image"
  /\ CurrentLoad \in loads
  /\ relayFailed
  /\ frame' = NoFrame
  /\ UNCHANGED <<storeVars, otherVars, tipTailSettings, selection, rowsToDraw, pdfBlob, pdfSize,
                 delivered, notices>>

\* lines 537-539 and 559-561: the 200 ms timer calls tryLoadOptimizedImage
retryTimer ==
  /\ phase = "retry"
  /\ phase' = "image"
  /\ loads' = loads \cup {CurrentLoad}
  /\ UNCHANGED <<storeVars, otherVars, frame, tipTailSettings, doc, selection, rowsToDraw,
                 rowIdx, pageRow, attempt, skipped, stats, pdfBlob, pdfSize, delivered, notices>>

\* ------------------------------------------------------- mergeWithTipTail
\* the pages of an externally supplied document
ExtPages(slot, source, n) ==
  [i \in 1..n |-> <<Op("external", 0, 0, source, slot, i, 0)>>]

\* what the environment answers for one slot: whether the uploaded bytes
\* parse, whether the asset path can be fetched, whether its bytes parse, and
\* the page counts of the two documents
SlotEnvs ==
  [uploadValid : BOOLEAN, fetchOk : BOOLEAN, assetValid : BOOLEAN,
   uploadPages : 1..MaxTipPages, assetPages : 1..MaxTipPages]

\* mainOk: PDFLib loads the primary; saveOk: copying and saving do not throw
MergeEnvs == [mainOk : BOOLEAN, saveOk : BOOLEAN, tip : SlotEnvs, tail : SlotEnvs]

NoSlot == [pages |-> <<>>, warnings |-> {}, fetched |-> {}]

\* mutant: every slot warning is titled after the tip
ResolveSlot_warnsTip(slot, upload, asset, e) ==
  LET warn == {"Tip File Issue"}
  IN IF upload # ""
     THEN IF e.uploadValid
          THEN [pages |-> ExtPages(slot, "upload", e.uploadPages), warnings |-> {},
                fetched |-> {}]
          ELSE [pages |-> <<>>, warnings |-> warn, fetched |-> {}]
     ELSE IF asset # ""
          THEN IF e.fetchOk /\ e.assetValid
               THEN [pages |-> ExtPages(slot, "asset", e.assetPages), warnings |-> {},
                     fetched |-> {slot}]
               ELSE [pages |-> <<>>, warnings |-> warn, fetched |-> {slot}]
          ELSE NoSlot

\* mutant: the asset path is tried first and the upload is the fallback
ResolveSlot_assetFirst(slot, upload, asset, e) ==
  LET warn == {IF slot = "tip" THEN "Tip File Issue" ELSE "Tail File Issue"}
  IN IF asset # ""
     THEN IF e.fetchOk /\ e.assetValid
          THEN [pages |-> ExtPages(slot, "asset", e.assetPages), warnings |-> {},
                fetched |-> {slot}]
          ELSE [pages |-> <<>>, warnings |-> warn, fetched |-> {slot}]
     ELSE IF upload # ""
          THEN IF e.uploadValid
               THEN [pages |-> ExtPages(slot, "upload", e.uploadPages), warnings |-> {},
                     fetched |-> {}]
               ELSE [pages |-> <<>>, warnings |-> warn, fetched |-> {}]
          ELSE NoSlot

\* lines 2797-2827 (tip) and 2836-2866 (tail)
ResolveSlot(slot, upload, asset, e) ==
  LET warn == {IF slot = "tip" THEN "Tip File Issue" ELSE "Tail File Issue"}
  IN IF upload # ""
     THEN IF e.uploadValid
          THEN [pages |-> ExtPages(slot, "upload", e.uploadPages), warnings |-> {},
                fetched |-> {}]
          ELSE [pages |-> <<>>, warnings |-> warn, fetched |-> {}]
     ELSE IF asset # ""
          THEN IF e.fetchOk /\ e.assetValid
               THEN [pages |-> ExtPages(slot, "asset", e.assetPages), warnings |-> {},
                     fetched |-> {slot}]
               ELSE [pages |-> <<>>, warnings |-> warn, fetched |-> {slot}]
          ELSE NoSlot

\* mutant: the tip pages are put in front of the cover
MergedPages_tipFirst(main, tipPages, tailPages) ==
  tipPages \o main \o tailPages

\* lines 2794-2874: the page order of mergedDoc
MergedPages(main, tipPages, tailPages) ==
  <<main[1]>> \o tipPages \o SubSeq(main, 2, Len(main)) \o tailPages

\* mutant: a failure of the save hands back what had been merged so far
mergeWithTipTail_partial(main, st, env) ==
  IF st.tipAsset = "" /\ st.tipUpload = "" /\ st.tailAsset = "" /\ st.tailUpload = ""
  THEN [pages |-> main, warnings |-> {}, fetched |-> {}]
  ELSE IF ~env.mainOk
  THEN [pages |-> main, warnings |-> {"PDF Merging Error"}, fetched |-> {}]
  ELSE LET tip == ResolveSlot("tip", st.tipUpload, st.tipAsset, env.tip)
           tail == ResolveSlot("tail", st.tailUpload, st.tailAsset, env.tail)
       IN [pages |-> MergedPages(main, tip.pages, tail.pages),
           warnings |-> tip.warnings \cup tail.warnings
                          \cup (IF env.saveOk THEN {} ELSE {"PDF Merging Error"}),
           fetched |-> tip.fetched \cup tail.fetched]

\* lines 2732-2882
mergeWithTipTail(main, st, env) ==
  IF st.tipAsset = "" /\ st.tipUpload = "" /\ st.tailAsset = "" /\ st.tailUpload = ""
  THEN [pages |-> main, warnings |-> {}, fetched |-> {}]
  ELSE IF ~env.mainOk
  THEN [pages |-> main, warnings |-> {"PDF Merging Error"}, fetched |-> {}]
  ELSE LET tip == ResolveSlot("tip", st.tipUpload, st.tipAsset, env.tip)
           tail == ResolveSlot("tail", st.tailUpload, st.tailAsset, env.tail)
       IN IF ~env.saveOk
          THEN [pages |-> main,
                warnings |-> tip.warnings \cup tail.warnings \cup {"PDF Merging Error"},
                fetched |-> tip.fetched \cup tail.fetched]
          ELSE [pages |-> MergedPages(main, tip.pages, tail.pages),
                warnings |-> tip.warnings \cup tail.warnings,
                fetched |-> tip.fetched \cup tail.fetched]

NoEnv ==
  LET e == [uploadValid |-> FALSE, fetchOk |-> FALSE, assetValid |-> FALSE,
            uploadPages |-> 1, assetPages |-> 1]
  IN [mainOk |-> FALSE, saveOk |-> FALSE, tip |-> e, tail |-> e]

\* the side file of a delivery: none; csvBlob: null; or the rows of the file
NoCsv == <<"none">>
CsvNull == <<"null">>

Delivery(sink, pages, main, merged, env, fetched, csv) ==
  [sink |-> sink, pages |-> pages, main |-> main, merged |-> merged, env |-> env,
   fetched |-> fetched, csv |-> csv]

\* ------------------------------------------------------ the end of the export
\* mutant: the page count of the label includes the cover
NumberPages_countsCover(d) ==
  [i \in 1..Len(d) |->
     IF i >= 2
     THEN d[i] \o <<PdfHeaderOp, Op("pageLabel", 0, 0, "", "", i - 1, Len(d))>>
     ELSE d[i]]

\* lines 640-654: the numbering pass, header and footer on every content page
NumberPages(d) ==
  LET pageCount == Len(d) - 1
  IN [i \in 1..Len(d) |->
        IF i >= 2
        THEN d[i] \o <<PdfHeaderOp, Op("pageLabel", 0, 0, "", "", i - 1, pageCount)>>
        ELSE d[i]]

\* the values of userDetails.sendEmail, .email and .exportCsv
SendOptions ==
  {[sendEmail |-> FALSE, hasEmail |-> FALSE, exportCsv |-> FALSE],
   [sendEmail |-> TRUE, hasEmail |-> FALSE, exportCsv |-> FALSE],
   [sendEmail |-> TRUE, hasEmail |-> TRUE, exportCsv |-> FALSE],
   [sendEmail |-> TRUE, hasEmail |-> TRUE, exportCsv |-> TRUE]}

\* the values of localStorage['tipTailSettings'] during an export
ExportTipTailSettings ==
  {NoSettings,
   [tipAsset |-> "assets/tip.pdf", tipUpload |-> "base64", tailAsset |-> "assets/tail.pdf",
    tailUpload |-> ""]}

\* mutant: the size of the binary is not looked at
TooLargeForEmail_never(opts, oversize) == FALSE

\* line 701: pdfBlob.size > 15 * 1024 * 1024, for an export destined for email
TooLargeForEmail(opts, oversize) == opts.sendEmail /\ oversize

\* the size of the binary is looked at by line 701 only when
\* userDetails.sendEmail is set
OversizeChoices(opts) == IF opts.sendEmail THEN BOOLEAN ELSE {FALSE}

\* line 711
EmailRequested(opts) == opts.sendEmail /\ opts.hasEmail

\* lines 640-786: the call of drawNextRow that finds no row left.  The fields
\* of userDetails that only this code reads are drawn here.
finishExport ==
  /\ phase = "rows"
  /\ rowIdx >= Len(rowsToDraw)
  /\ doc' = NumberPages(doc)
  /\ frame' = NoFrame
  /\ \E opts \in SendOptions, writerOk \in BOOLEAN :
     \E oversize \in OversizeChoices(opts) :
       IF ~writerOk
       THEN \* doc.output throws: lines 772-780
            /\ phase' = "failed"
            /\ notices' = notices \cup {"error: generating PDF"}
            /\ UNCHANGED <<pdfBlob, pdfSize, delivered>>
       ELSE /\ pdfBlob' = doc'
            /\ pdfSize' = IF oversize THEN "large" ELSE "small"
            /\ IF TooLargeForEmail(opts, oversize)
               THEN /\ phase' = "emailOption"
                    /\ notices' = notices \cup {"offer: email-compatible version"}
                    /\ UNCHANGED delivered
               ELSE IF EmailRequested(opts)
                    THEN IF opts.exportCsv
                         THEN /\ phase' = "csvForEmail"
                              /\ UNCHANGED <<delivered, notices>>
                         ELSE /\ phase' = "done"
                              /\ delivered' = Append(delivered,
                                   Delivery("email", doc', doc', FALSE, NoEnv, {}, CsvNull))
                              /\ UNCHANGED notices
                    ELSE /\ phase' = "merging"
                         /\ UNCHANGED <<delivered, notices>>
  /\ UNCHANGED <<storeVars, otherVars, tipTailSettings, selection, rowsToDraw, rowIdx, pageRow,
                 attempt, loads, skipped, stats>>

\* lines 2164-2169: the click on "Create Email Version" sets
\* userDetails.emailCompatible and calls showPdfFormScreen(userDetails): a
\* second run of the export, with a document and counters of its own.  What
\* is left of the first run (a customer logo still loading) draws on the
\* document of the first run, which nothing reads any more.
createEmailVersion ==
  /\ phase = "emailOption"
  /\ emailCompatible' = TRUE
  /\ phase' = "coverLogo"
  /\ loads' = {CoverLogoLoad}
  /\ doc' = <<>> /\ selection' = <<>> /\ rowsToDraw' = <<>>
  /\ rowIdx' = 0 /\ pageRow' = 0
  /\ skipped' = {} /\ stats' = ZeroStats
  /\ pdfBlob' = <<>> /\ pdfSize' = "none"
  /\ UNCHANGED <<otherVars, selectedProducts, storedSelection, customerLogo, frame,
                 tipTailSettings, attempt, delivered, notices>>

\* lines 2157-2162: the click on "Send Current Version" dispatches the event
\* sendEmailRegular, whose detail holds userDetails and the file name and no
\* binary
sendCurrentVersion ==
  /\ phase = "emailOption"
  /\ phase' = "regularRequested"
  /\ notices' = notices \cup {"event: sendEmailRegular"}
  /\ UNCHANGED <<storeVars, otherVars, frame, tipTailSettings, doc, selection, rowsToDraw,
                 rowIdx, pageRow, attempt, loads, skipped, stats, pdfBlob, pdfSize,
                 delivered>>

\* lines 505-525: what img.onload does with an exception that its call of cb
\* let through: the image is added once more as it is and cb is called again
\* (from the inner try), or the image is counted as failed and cb is called
\* again (from the try of the fallback and from its catch)
cbThrew ==
  LET row == rowsToDraw[frame.row + 1]
      imgOp == Op("image", row.item.src, frame.slot, row.room, frame.which, 0, 0)
  IN \E fallbackOk \in (IF frame.stage = 1 THEN BOOLEAN ELSE {FALSE}) :
       LET stage == IF fallbackOk THEN 2 ELSE IF frame.stage <= 2 THEN 3 ELSE 4
           s == IF fallbackOk
                THEN RowState(AddOp(doc, imgOp), [stats EXCEPT !.optimizedImages = @ + 1],
                              skipped, "none")
                ELSE RowState(doc, [stats EXCEPT !.failedImages = @ + 1], skipped, "none")
           t == imageCallback(frame.which, row, frame.slot, s)
       IN /\ Settle(t, pageRow, loads)
          /\ frame' = StillOnStack([frame EXCEPT !.stage = stage], t)

\* lines 640-654: the call of drawNextRow that finds no row left, when the
\* writer throws in the numbering pass, which is outside the try of line 675.
\* The exception is taken at the first call into the writer (doc.setPage):
\* nothing of the pass is drawn.  It leaves drawNextRow and every caller up
\* to the handler that started the chain: the callback of a logo load, img.onerror
\* and the timers catch nothing; img.onload catches what its cb lets through
\* up to its outer catch.
numberingThrows ==
  /\ phase = "rows"
  /\ rowIdx >= Len(rowsToDraw)
  /\ IF frame = NoFrame \/ frame.stage >= 4
     THEN /\ phase' = "thrown"
          /\ frame' = NoFrame
          /\ UNCHANGED <<doc, rowIdx, pageRow, attempt, loads, skipped, stats>>
     ELSE cbThrew
  /\ UNCHANGED <<storeVars, otherVars, tipTailSettings, selection, rowsToDraw, pdfBlob, pdfSize,
                 delivered, notices>>

\* lines 1072-1091: the row of the file that an item of the selection gives
CsvRow(item) == <<item.OrderCode, item.Room>>

\* lines 1031-1141: what the promise of generateCsvBlobAsync resolves with,
\* r being what lines 1047-1063 read from the store: null when PapaParse does
\* not load (line 1039) or when no row is stored (line 1066), the rows else
generateCsvBlobAsync(r, papaOk) ==
  IF ~papaOk \/ r.outcome = "empty" THEN CsvNull
  ELSE <<"rows", [i \in 1..Len(r.selection) |-> CsvRow(r.selection[i])]>>

\* lines 715-734 and 1031-1141: generateCsvBlobAsync reads the store and
\* settles; then and catch both dispatch the sendEmail event with the blob
\* of line 708.  The executor of the promise is an async function that is
\* given resolve only: an exception in it or in its timers (item.product of
\* a null entry at line 1054, item.RRP_INCGST of a null item at line 1073)
\* settles nothing, and neither then nor catch ever runs.
csvSettled ==
  /\ phase = "csvForEmail"
  /\ \E papaOk \in BOOLEAN :
       LET r == ReadSelection
       IN IF papaOk /\ r.outcome = "throws"
          THEN /\ phase' = "csvHung"
               /\ UNCHANGED delivered
          ELSE /\ phase' = "done"
               /\ delivered' = Append(delivered,
                    Delivery("email", pdfBlob, pdfBlob, FALSE, NoEnv, {},
                             generateCsvBlobAsync(r, papaOk)))
  /\ UNCHANGED <<storeVars, otherVars, frame, tipTailSettings, doc, selection, rowsToDraw,
                 rowIdx, pageRow, attempt, loads, skipped, stats, pdfBlob, pdfSize, notices>>

\* the answers that the merger asks of the environment: none when no slot is
\* configured (line 2742 returns at once)
EnvsFor(st, envs) == IF st = NoSettings THEN {NoEnv} ELSE envs

\* the merger's call (lines 748-751) reads localStorage['tipTailSettings']
\* (the settings dialog may have rewritten it at any time before: st), settles
\* under the answers env of the environment, and its result is downloaded
MergeAndDownload(settings, envs) ==
  /\ phase = "merging"
  /\ \E st \in settings : \E env \in EnvsFor(st, envs) :
       LET r == mergeWithTipTail(pdfBlob, st, env)
       IN /\ tipTailSettings' = st
          /\ delivered' = Append(delivered,
               Delivery("download", r.pages, pdfBlob, TRUE, env, r.fetched, NoCsv))
          /\ notices' = notices \cup r.warnings
  /\ phase' = "done"
  /\ UNCHANGED <<storeVars, otherVars, frame, doc, selection, rowsToDraw,
                 rowIdx, pageRow, attempt, loads, skipped, stats, pdfBlob, pdfSize>>

SlotEnv(uv, fo, av) ==
  [uploadValid |-> uv, fetchOk |-> fo, assetValid |-> av, uploadPages |-> 1,
   assetPages |-> MaxTipPages]

\* the answers of the environment that an export is run against
ExportMergeEnvs ==
  {[mainOk |-> TRUE, saveOk |-> TRUE, tip |-> SlotEnv(TRUE, TRUE, TRUE),
    tail |-> SlotEnv(TRUE, TRUE, TRUE)],
   [mainOk |-> TRUE, saveOk |-> TRUE, tip |-> SlotEnv(FALSE, TRUE, TRUE),
    tail |-> SlotEnv(TRUE, FALSE, TRUE)],
   [mainOk |-> FALSE, saveOk |-> TRUE, tip |-> SlotEnv(TRUE, TRUE, TRUE),
    tail |-> SlotEnv(TRUE, TRUE, TRUE)]}

mergeSettled == MergeAndDownload(ExportTipTailSettings, ExportMergeEnvs)

Next ==
  \/ showPdfFormScreen
  \/ coverLogoLoaded
  \/ seimaLogoLoaded
  \/ whiteLogoLoaded
  \/ logoLoadFails
  \/ customerLogoOnload
  \/ customerLogoFails
  \/ drawNextRow
  \/ imgOnload
  \/ imgOnerror
  \/ imgTimeout
  \/ retryTimer
  \/ finishExport
  \/ createEmailVersion
  \/ sendCurrentVersion
  \/ csvSettled
  \/ mergeSettled

Spec == Init /\ [][Next]_vars

\* ------------------------------- the export of rows with image references
ImagesInit ==
  /\ selectedProducts \in SeqsUpTo(ImageEntries, MaxImageRows)
  /\ storedSelection = <<>>
  /\ customerLogo \in LogoChoices
  /\ emailCompatible \in BOOLEAN
  /\ Idle
  /\ OtherIdle

SpecImages == ImagesInit /\ [][Next]_vars

\* ------------------------------- the writer throws in the numbering pass
ThrowsNext == Next \/ numberingThrows

SpecThrows == ImagesInit /\ [][ThrowsNext]_vars

\* ------------------------------------ the store rewritten during an export
\* what the store holds when the export starts
StoreStarts == {<<Entry(TextProduct, "Kitchen")>>, <<Entry(ImageProduct, "Bath")>>}

\* what another handler may leave in the store while the export waits
StoreEdits == {<<>>, <<Entry(TextProduct, "2")>>, <<NullEntry>>}

StoreInit ==
  /\ selectedProducts \in StoreStarts
  /\ storedSelection = <<>>
  /\ customerLogo \in BOOLEAN
  /\ emailCompatible = FALSE
  /\ Idle
  /\ OtherIdle

\* the export waits for an image load or a timer: any other handler may run
ExportWaits == phase \in {"coverLogo", "seimaLogo", "whiteLogo", "image", "retry"}

\* storage.js lines 103-195, navigation.js lines 670-750: a handler of the
\* page (or of another tab) rewrites the stored selection
storeEdited ==
  /\ ExportWaits
  /\ selectedProducts' \in StoreEdits \ {selectedProducts}
  /\ UNCHANGED <<otherVars, storedSelection, customerLogo, emailCompatible, frame, tipTailSettings,
                 phase, doc, selection, rowsToDraw, rowIdx, pageRow, attempt, loads,
                 skipped, stats, pdfBlob, pdfSize, delivered, notices>>

StoreNext == Next \/ storeEdited

SpecStore == StoreInit /\ [][StoreNext]_vars

\* ------------------------------------------ the merger applied on its own
PrimaryOf(k) ==
  <<<<Op("coverBody", 0, 0, "", "", 0, 0)>>>>
    \o [i \in 1..k |-> <<Op("text", i, 0, "", "", 0, 0)>>]

Primaries == {PrimaryOf(k) : k \in 0..MaxPrimaryPages}

AllTipTailSettings ==
  [tipAsset : {"", "assets/tip.pdf"}, tipUpload : {"", "base64"},
   tailAsset : {"", "assets/tail.pdf"}, tailUpload : {"", "base64"}]

MergeInit ==
  /\ selectedProducts = <<>>
  /\ storedSelection = <<>>
  /\ customerLogo = FALSE
  /\ emailCompatible = FALSE
  /\ phase = "merging"
  /\ tipTailSettings = NoSettings
  /\ pdfBlob \in Primaries
  /\ pdfSize = "small"
  /\ doc = pdfBlob
  /\ selection = <<>>
  /\ rowsToDraw = <<>>
  /\ rowIdx = 0
  /\ pageRow = 0
  /\ attempt = NoAttempt
  /\ frame = NoFrame
  /\ loads = {}
  /\ skipped = {}
  /\ stats = ZeroStats
  /\ delivered = <<>>
  /\ notices = {}
  /\ OtherIdle

mergeCall == MergeAndDownload(AllTipTailSettings, MergeEnvs)

MergeNext == mergeCall

SpecMerge == MergeInit /\ [][MergeNext]_vars

\* ------------------------------------- the cells of a row and the titles
\* A string that the code takes apart is the sequence of its characters.
Digits == <<"0", "1", "2", "3", "4", "5", "6", "7", "8", "9">>
IsDigit(c) == \E d \in 1..10 : Digits[d] = c
DigitValue(c) == (CHOOSE d \in 1..10 : Digits[d] = c) - 1

RECURSIVE LeadingDigits(_)
LeadingDigits(s) ==
  IF s = <<>> \/ ~IsDigit(Head(s)) THEN <<>> ELSE <<Head(s)>> \o LeadingDigits(Tail(s))

RECURSIVE NumberOf(_)
NumberOf(ds) ==
  IF ds = <<>> THEN 0
  ELSE 10 * NumberOf(SubSeq(ds, 1, Len(ds) - 1)) + DigitValue(ds[Len(ds)])

RECURSIVE TrimStart(_)
TrimStart(s) == IF s # <<>> /\ Head(s) = " " THEN TrimStart(Tail(s)) ELSE s

\* a number is kept in hundredths; the strings of the model have at most two
\* decimals
NaN == [nan |-> TRUE, cents |-> 0]
Hundredths(fp) ==
  IF fp = <<>> THEN 0
  ELSE IF Len(fp) = 1 THEN 10 * DigitValue(fp[1])
       ELSE 10 * DigitValue(fp[1]) + DigitValue(fp[2])

\* parseFloat of ECMAScript: white space is skipped, then the longest prefix
\* that is a decimal literal is the value; NaN when there is no such prefix
parseFloat(s) ==
  LET t == TrimStart(s)
      signed == t # <<>> /\ Head(t) \in {"-", "+"}
      u == IF signed THEN Tail(t) ELSE t
      ip == LeadingDigits(u)
      rest == SubSeq(u, Len(ip) + 1, Len(u))
      fp == IF rest # <<>> /\ Head(rest) = "." THEN LeadingDigits(Tail(rest)) ELSE <<>>
      abs == 100 * NumberOf(ip) + Hundredths(fp)
  IN IF ip = <<>> /\ fp = <<>> THEN NaN
     ELSE [nan |-> FALSE, cents |-> IF signed /\ Head(t) = "-" THEN 0 - abs ELSE abs]

\* line 890: replace(/,/g, '')
StripCommas(s) == SelectSeq(s, LAMBDA c : c # ",")

\* Number.prototype.toFixed(2), of a number that is not negative
toFixed2(cents) ==
  ToString(cents \div 100) \o "." \o (IF cents % 100 < 10 THEN "0" ELSE "")
    \o ToString(cents % 100)

\* mutant: the thousands separators stay in the string that is parsed
pdfPriceNum_keepsCommas(item) ==
  IF item.RRP_INCGST # <<>> THEN parseFloat(item.RRP_INCGST) ELSE NaN

\* lines 888-891
pdfPriceNum(item) ==
  IF item.RRP_INCGST # <<>> THEN parseFloat(StripCommas(item.RRP_INCGST)) ELSE NaN

\* row.item.Quantity || 1; 0 is also the Quantity of an item that has none
QuantityOr1(item) == IF item.Quantity = 0 THEN 1 ELSE item.Quantity

\* lines 892 and 907: pdfPriceNum && !isNaN(pdfPriceNum) && pdfPriceNum > 0
HasPrice(num) == ~num.nan /\ num.cents # 0 /\ num.cents > 0

\* line 892
pdfPriceStr(item) ==
  IF HasPrice(pdfPriceNum(item)) THEN "$" \o toFixed2(pdfPriceNum(item).cents) ELSE ""

\* line 907
pdfTotalStr(item) ==
  IF HasPrice(pdfPriceNum(item))
  THEN "$" \o toFixed2(pdfPriceNum(item).cents * QuantityOr1(item))
  ELSE ""

\* a cell: <<>> when nothing is drawn, <<text>> when doc.text draws text
Drawn(show, text) == IF show THEN <<text>> ELSE <<>>

\* mutant: the quantity cell follows the price cell
RowCells_qtyWithPrice(item, ud) ==
  [drawn |-> TRUE,
   price |-> Drawn(~ud.excludePrice /\ ~ud.excludeQty, pdfPriceStr(item)),
   qty |-> Drawn(~ud.excludePrice /\ ~ud.excludeQty, ToString(QuantityOr1(item))),
   total |-> Drawn(~ud.excludePrice /\ ~ud.excludeQty, pdfTotalStr(item))]

\* lines 893-911: the three cells of the row
RowCells(item, ud) ==
  [drawn |-> TRUE,
   price |-> Drawn(~ud.excludePrice /\ ~ud.excludeQty, pdfPriceStr(item)),
   qty |-> Drawn(~ud.excludeQty, ToString(QuantityOr1(item))),
   total |-> Drawn(~ud.excludePrice /\ ~ud.excludeQty, pdfTotalStr(item))]

\* mutant: the header drawn with prices excluded has no quantity title
HeaderTitles_noQty(excludePrice, excludeQty) ==
  {"Code", "Description"}
    \cup (IF ~excludePrice /\ ~excludeQty THEN {"Price ea inc GST", "Qty", "Total"} ELSE {})

\* lines 945-956 of drawPDFHeader: the titles drawn
HeaderTitles(excludePrice, excludeQty) ==
  {"Code", "Description"}
    \cup (IF ~excludePrice /\ ~excludeQty THEN {"Price ea inc GST", "Qty", "Total"}
          ELSE IF excludePrice /\ ~excludeQty THEN {"Qty"} ELSE {})

\* product-grid.js lines 386-396: userDetails of the form of the grid
GridFormDetails(prices, qty) ==
  [excludePrice |-> IF qty THEN TRUE ELSE prices, excludeQty |-> qty]

\* navigation.js lines 946-947: userDetails of the form of the review screen
NavFormDetails(prices, qty) == [excludePrice |-> prices, excludeQty |-> qty]

ExportFlags ==
  {GridFormDetails(p, q) : p, q \in BOOLEAN} \cup {NavFormDetails(p, q) : p, q \in BOOLEAN}

\* the values of RRP_INCGST: none (or ''), text, zero, a negative number,
\* decimals, a number with thousands separators, a number with a currency sign
PriceStrings ==
  {<<>>, <<"P", "O", "A">>, <<"0">>, <<"0", ".", "0", "0">>, <<"-", "5">>,
   <<"1", "0", ".", "0", "0">>, <<"5">>, <<"7", ".", "5">>, <<" ", "1", "2">>,
   <<"1", ",", "2", "3", "4", ".", "5", "0">>, <<"$", "1", "0">>}

CellsInit ==
  /\ selectedProducts = <<>>
  /\ storedSelection = <<>>
  /\ customerLogo = FALSE
  /\ emailCompatible = FALSE
  /\ Idle
  /\ userDetails \in ExportFlags
  /\ priceRow \in [RRP_INCGST : PriceStrings, Quantity : 0..MaxQuantity]
  /\ cells = NoCells
  /\ titles = {}
  /\ imgSize = [width |-> 0, height |-> 0, maxWidth |-> 0]
  /\ canvas = NoSize
  /\ gridRows = <<>>
  /\ nextId = 1

exportVars ==
  <<tipTailSettings, phase, doc, selection, rowsToDraw, rowIdx, pageRow, attempt,
    frame, loads, skipped, stats, pdfBlob, pdfSize, delivered, notices>>

\* lines 885-911: the price, quantity and total of the row are drawn
drawRowCells ==
  /\ ~cells.drawn
  /\ cells' = RowCells(priceRow, userDetails)
  /\ UNCHANGED <<storeVars, exportVars, userDetails, priceRow, titles, canvasVars, gridVars>>

\* lines 924-958, called at 645 and 790 with the flags of userDetails
drawPDFHeader ==
  /\ titles = {}
  /\ titles' = HeaderTitles(userDetails.excludePrice, userDetails.excludeQty)
  /\ UNCHANGED <<storeVars, exportVars, userDetails, priceRow, cells, canvasVars, gridVars>>

CellsNext == drawRowCells \/ drawPDFHeader

SpecCells == CellsInit /\ [][CellsNext]_vars

\* ------------------------------------------- the size of the canvas
\* Math.round(maxWidth * (originalHeight / originalWidth)), the product being
\* n / d.  The quotient and the product are rounded to doubles: a product
\* that is half-way between two integers may come out just below it
\* (150 * (33 / 180) is 27.499999999999996), so either neighbour is possible.
RoundChoices(n, d) ==
  IF (2 * n) % d = 0 /\ ((2 * n) \div d) % 2 = 1
  THEN {n \div d, n \div d + 1}
  ELSE {(2 * n + d) \div (2 * d)}

\* mutant: the height is cut off instead of rounded
calculateOptimizedDimensions_floor(originalWidth, originalHeight, maxWidth) ==
  IF originalWidth <= maxWidth
  THEN {[width |-> originalWidth, height |-> originalHeight]}
  ELSE {[width |-> maxWidth, height |-> (maxWidth * originalHeight) \div originalWidth]}

\* lines 1622-1632: the sizes that the function may return
calculateOptimizedDimensions(originalWidth, originalHeight, maxWidth) ==
  IF originalWidth <= maxWidth
  THEN {[width |-> originalWidth, height |-> originalHeight]}
  ELSE {[width |-> maxWidth, height |-> hh] :
          hh \in RoundChoices(maxWidth * originalHeight, originalWidth)}

\* optimizationSettings.imageMaxWidth, on the scale of the model
ImageMaxWidths == {3, 4}

CanvasInit ==
  /\ selectedProducts = <<>>
  /\ storedSelection = <<>>
  /\ customerLogo = FALSE
  /\ emailCompatible = FALSE
  /\ Idle
  /\ userDetails = NoFlags
  /\ priceRow = NoPriceRow
  /\ cells = NoCells
  /\ titles = {}
  /\ imgSize \in [width : 1..MaxSide, height : 1..MaxSide, maxWidth : ImageMaxWidths]
  /\ canvas = NoSize
  /\ gridRows = <<>>
  /\ nextId = 1

\* lines 458-467: img.onload sizes the canvas for the decoded image
sizeCanvas ==
  /\ canvas = NoSize
  /\ canvas' \in calculateOptimizedDimensions(imgSize.width, imgSize.height, imgSize.maxWidth)
  /\ UNCHANGED <<storeVars, exportVars, sheetVars, imgSize, gridVars>>

CanvasNext == sizeCanvas

SpecCanvas == CanvasInit /\ [][CanvasNext]_vars

\* ------------------------------------------- the grid and the store
\* row.storageId: not set, an identifier of the store, or the value true
NoStorageId == <<"undefined", 0>>
StorageId(n) == <<"id", n>>
TrueValue == <<"true", 0>>

\* product-grid.js lines 410-420: addEmptyRow; product "" is product: null
EmptyRow ==
  [product |-> "", room |-> "Blank", quantity |-> 1, notes |-> "", storageId |-> NoStorageId]

\* storage.js line 112: Utils.generateId(), an identifier that no entry has
generateId == StorageId(nextId)

\* storage.js lines 103-140: the store after the call, and what the call
\* returns: success, the boolean that setSelectedProducts returned
addProductToSelection(sp, product, notes, room, quantity) ==
  [store |-> Append(sp, [id |-> generateId, product |-> product, notes |-> notes,
                         room |-> room, quantity |-> quantity]),
   returns |-> TrueValue]

\* storage.js lines 142-173: findIndex(p => p.id === productId), then the
\* field of that entry is set; nothing is written when no entry has the id
updateProduct(sp, productId, quantity, room, notes) ==
  [k \in 1..Len(sp) |->
     IF sp[k].id = productId /\ \A j \in 1..(k - 1) : sp[j].id # productId
     THEN [sp[k] EXCEPT !.quantity = quantity, !.room = room, !.notes = notes]
     ELSE sp[k]]

\* storage.js lines 187-191: filter(p => p.id !== productId)
removeProductFromSelection(sp, productId) == SelectSeq(sp, LAMBDA e : e.id # productId)

GridProducts == {"K1", "B1"}
GridRooms == {"Blank", "Kitchen"}
GridNotes == {"", "near door"}

\* product-grid.js lines 581-611 with saveRowToStorage (617-640) and
\* focusNextRowOrCreate (646-662): a product is chosen in a row that has none
selectProduct ==
  \E i \in 1..Len(gridRows), product \in GridProducts :
    /\ gridRows[i].product = ""
    /\ Len(selectedProducts) < MaxStored
    /\ nextId <= MaxIds
    /\ i < Len(gridRows) \/ Len(gridRows) < MaxGridRows
    /\ LET row == gridRows[i]
           r == addProductToSelection(selectedProducts, product, row.notes, row.room,
                                      row.quantity)
           saved == [row EXCEPT !.product = product, !.storageId = r.returns]
           rows == [gridRows EXCEPT ![i] = saved]
       IN /\ selectedProducts' = r.store
          /\ gridRows' = IF i < Len(gridRows) THEN rows ELSE Append(rows, EmptyRow)
    /\ nextId' = nextId + 1
    /\ UNCHANGED <<storedSelection, customerLogo, emailCompatible, exportVars, sheetVars,
                   canvasVars>>

\* product-grid.js lines 1296-1360: a quantity, a room or a note is typed into
\* a row
updateRowFromInput ==
  \E i \in 1..Len(gridRows) :
  \E quantity \in 1..MaxGridQuantity, room \in GridRooms, notes \in GridNotes :
    LET row == gridRows[i]
        edited == [row EXCEPT !.quantity = quantity, !.room = room, !.notes = notes]
    IN /\ \/ (quantity # row.quantity /\ room = row.room /\ notes = row.notes)
          \/ (quantity = row.quantity /\ room # row.room /\ notes = row.notes)
          \/ (quantity = row.quantity /\ room = row.room /\ notes # row.notes)
       /\ gridRows' = [gridRows EXCEPT ![i] = edited]
       /\ selectedProducts' =
            IF row.product # "" /\ row.storageId # NoStorageId
            THEN updateProduct(selectedProducts, row.storageId, quantity, room, notes)
            ELSE selectedProducts
       /\ UNCHANGED <<storedSelection, customerLogo, emailCompatible, exportVars,
                      sheetVars, canvasVars, nextId>>

\* product-grid.js lines 437-452: the row is removed, from the store too, and
\* an empty grid gets an empty row
removeRow ==
  \E i \in 1..Len(gridRows) :
    LET row == gridRows[i]
        rest == SubSeq(gridRows, 1, i - 1) \o SubSeq(gridRows, i + 1, Len(gridRows))
    IN /\ selectedProducts' =
            IF row.product # "" /\ row.storageId # NoStorageId
            THEN removeProductFromSelection(selectedProducts, row.storageId)
            ELSE selectedProducts
       /\ gridRows' = IF rest = <<>> THEN <<EmptyRow>> ELSE rest
       /\ UNCHANGED <<storedSelection, customerLogo, emailCompatible, exportVars,
                      sheetVars, canvasVars, nextId>>

\* product-grid.js lines 190-203 and 1377-1395: the page is loaded again; the
\* rows are made from the entries of the store
loadExistingProducts ==
  /\ Len(selectedProducts) <= MaxGridRows
  /\ LET rows == [k \in 1..Len(selectedProducts) |->
                    [product |-> selectedProducts[k].product,
                     room |-> selectedProducts[k].room,
                     quantity |-> selectedProducts[k].quantity,
                     notes |-> selectedProducts[k].notes,
                     storageId |-> selectedProducts[k].id]]
     IN gridRows' = IF rows = <<>> THEN <<EmptyRow>> ELSE rows
  /\ UNCHANGED <<storeVars, exportVars, sheetVars, canvasVars, nextId>>

GridInit ==
  /\ selectedProducts = <<>>
  /\ storedSelection = <<>>
  /\ customerLogo = FALSE
  /\ emailCompatible = FALSE
  /\ Idle
  /\ userDetails = NoFlags
  /\ priceRow = NoPriceRow
  /\ cells = NoCells
  /\ titles = {}
  /\ imgSize = [width |-> 0, height |-> 0, maxWidth |-> 0]
  /\ canvas = NoSize
  /\ gridRows = <<EmptyRow>>
  /\ nextId = 1

GridNext == selectProduct \/ updateRowFromInput \/ removeRow \/ loadExistingProducts

SpecGrid == GridInit /\ [][GridNext]_vars

\* =====================================================================
\* The claims
\* =====================================================================
AllOps(d) == Flatten(d)

OpsOfKind(d, kind) == SelectSeq(AllOps(d), LAMBDA o : o.op = kind)

\* the rows whose text columns are drawn, in the order of drawing
TextSrcSeq(d) ==
  LET texts == OpsOfKind(d, "text") IN [k \in 1..Len(texts) |-> texts[k].src]

HasOp(d, kind, src) == \E i \in 1..Len(d) : \E k \in 1..Len(d[i]) :
  d[i][k].op = kind /\ d[i][k].src = src

HasImage(d, src, which) == \E i \in 1..Len(d) : \E k \in 1..Len(d[i]) :
  d[i][k].op = "image" /\ d[i][k].src = src /\ d[i][k].which = which

IsPrefix(a, b) == Len(a) <= Len(b) /\ SubSeq(b, 1, Len(a)) = a

RowLoads == {l \in loads : l[1] = "row"}

\* ---------------------------------------------------------------- C1
\* what a slot resolves to under the answers e of the environment
SlotConfigured(upload, asset) == upload # "" \/ asset # ""

SlotValid(upload, asset, e) ==
  IF upload # "" THEN e.uploadValid ELSE e.fetchOk /\ e.assetValid

SlotDocument(slot, upload, asset, e) ==
  IF upload # "" THEN ExtPages(slot, "upload", e.uploadPages)
  ELSE IF asset # "" THEN ExtPages(slot, "asset", e.assetPages)
  ELSE <<>>

SlotsAbsentOrValid(st, env) ==
  /\ SlotConfigured(st.tipUpload, st.tipAsset) => SlotValid(st.tipUpload, st.tipAsset, env.tip)
  /\ SlotConfigured(st.tailUpload, st.tailAsset) => SlotValid(st.tailUpload, st.tailAsset, env.tail)

\* C1: when no slot is configured, or the merge itself succeeds and every
\* slot is absent or resolves to a valid document, the merged document is the cover, then the tip pages in
\* their order, then the content pages in their order, then the tail pages
\* in their order; an absent slot contributes no page.
C1_MergeOrder ==
  \A i \in 1..Len(delivered) :
    LET d == delivered[i]
        st == tipTailSettings
        tip == SlotDocument("tip", st.tipUpload, st.tipAsset, d.env.tip)
        tail == SlotDocument("tail", st.tailUpload, st.tailAsset, d.env.tail)
    IN (d.merged /\ (st = NoSettings
                     \/ (d.env.mainOk /\ d.env.saveOk /\ SlotsAbsentOrValid(st, d.env))))
       => /\ Len(d.pages) = Len(d.main) + Len(tip) + Len(tail)
          /\ d.pages[1] = d.main[1]
          /\ \A k \in 1..Len(tip) : d.pages[1 + k] = tip[k]
          /\ \A k \in 2..Len(d.main) : d.pages[Len(tip) + k] = d.main[k]
          /\ \A k \in 1..Len(tail) : d.pages[Len(tip) + Len(d.main) + k] = tail[k]

\* a primary with two content pages merged with a two-page tip and a tail
C1_Witness ==
  \E i \in 1..Len(delivered) :
    LET d == delivered[i] IN
    /\ d.merged /\ d.env.mainOk /\ d.env.saveOk
    /\ tipTailSettings.tipAsset # "" /\ tipTailSettings.tipUpload = ""
    /\ tipTailSettings.tailUpload # ""
    /\ SlotsAbsentOrValid(tipTailSettings, d.env)
    /\ d.env.tip.assetPages = 2
    /\ Len(d.main) = 3
    /\ Len(d.pages) = 5 + d.env.tail.uploadPages

\* ---------------------------------------------------------------- C2
RowStarted(q) ==
  \/ \E kind \in {"roomHeader", "image", "text"} : HasOp(doc, kind, rowsToDraw[q].item.src)
  \/ \E l \in RowLoads : l[2] = q - 1

RowComplete(p) ==
  /\ HasOp(doc, "text", rowsToDraw[p].item.src)
  /\ ~\E l \in RowLoads : l[2] = p - 1

RowAtATime ==
  \A q \in 1..Len(rowsToDraw) :
    RowStarted(q) => \A p \in 1..(q - 1) : RowComplete(p)

AwaitedLoad ==
  CASE phase = "coverLogo" -> CoverLogoLoad
    [] phase = "seimaLogo" -> SeimaLogoLoad
    [] phase = "whiteLogo" -> WhiteLogoLoad
    [] OTHER -> CurrentLoad

Stalled ==
  /\ phase \in {"coverLogo", "seimaLogo", "whiteLogo", "image"}
  /\ AwaitedLoad \notin loads

\* C3: a started export never stalls: while it has neither delivered nor
\* reported a failure, the handler it waits for is still to come, whatever
\* the outcome of each image or logo load.
C3_NeverStalls == ~Stalled

\* ---------------------------------------------------------------- C4
GivenUpOnRelays == {e \in skipped : e[3] = "relays"}

RowOfSrc(src) == CHOOSE q \in 1..Len(rowsToDraw) : rowsToDraw[q].item.src = src

\* C4: an image that failed on every relay leaves its region empty and does
\* not stop the export: nothing is thrown, the row goes on (its diagram is
\* tried, its text is drawn), the export keeps waiting for a handler that
\* will come, and every delivered document holds the row's text and no such
\* image.
C4_FailedImageDegrades ==
  /\ phase = "image" => CurrentLoad \in loads
  /\ \A e \in GivenUpOnRelays :
       /\ phase # "crashed"
       /\ ~HasImage(doc, e[1], e[2])
       /\ \/ HasOp(doc, "text", e[1])
          \/ e[2] = "product" /\ attempt.which = "diagram" /\ RowOfSrc(e[1]) = rowIdx + 1
       /\ \A i \in 1..Len(delivered) :
            /\ HasOp(delivered[i].pages, "text", e[1])
            /\ ~HasImage(delivered[i].pages, e[1], e[2])

\* a document is delivered whose row lost both of its images to the relays
C4_Witness ==
  /\ Len(delivered) > 0
  /\ \E src \in 1..Len(selection) :
       /\ <<src, "product", "relays">> \in skipped
       /\ <<src, "diagram", "relays">> \in skipped
       /\ HasOp(delivered[1].pages, "text", src)

\* ---------------------------------------------------------------- C5
\* C5: every binary handed to a delivery sink, by download or as an email
\* attachment, is the output of mergeWithTipTail applied to the finalized
\* primary document.
C5_DeliveredIsMerged ==
  \A i \in 1..Len(delivered) : delivered[i].merged /\ delivered[i].main = pdfBlob

\* ---------------------------------------------------------------- C6
\* the rows grouped by room, the rooms in the order of their first appearance
ExpectedOrder(sel) ==
  LET rooms == FirstAppearance(sel, {})
      group(k) == SelectIdx(sel, rooms[k], 1)
  IN Flatten([k \in 1..Len(rooms) |-> [j \in 1..Len(group(k)) |-> group(k)[j].src]])

\* C6: the rows are drawn room by room, the rooms in the order in which each
\* first appears in the selection, the rows of a room in their input order.
C6_FirstAppearanceOrder == IsPrefix(TextSrcSeq(doc), ExpectedOrder(selection))

\* ---------------------------------------------------------------- C7
StoredRows == IF Len(selectedProducts) > 0 THEN selectedProducts ELSE storedSelection

\* C7: a null row, or a row whose product reference is null, never aborts
\* the export and never produces a rendered row.
C7_MalformedRowsSkipped ==
  /\ phase # "crashed"
  /\ \A k \in 1..Len(TextSrcSeq(doc)) :
       LET r == StoredRows[TextSrcSeq(doc)[k]] IN ~r.null /\ ~r.product.null

\* ---------------------------------------------------------------- C8
\* the rows that a page holds: those with a drawing operation on it
RowsOnPage(d, i) ==
  {d[i][k].src : k \in {j \in 1..Len(d[i]) : d[i][j].op \in {"roomHeader", "image", "text"}}}

\* C8: no content page ever holds more than 4 rows, and a content page is
\* added behind another one only when that one holds 4 rows and a row is
\* left to draw, the only row that the new page may then hold.  (The first
\* content page is added behind the cover, which holds no row.)
C8_PageCapacity ==
  /\ [](\A i \in 2..Len(doc) : Cardinality(RowsOnPage(doc, i)) <= 4)
  /\ [][(Len(doc) >= 2 /\ Len(doc') > Len(doc))
        => /\ Len(doc') = Len(doc) + 1
           /\ Cardinality(RowsOnPage(doc, Len(doc))) = 4
           /\ rowIdx < Len(rowsToDraw)
           /\ RowsOnPage(doc', Len(doc')) \subseteq {rowsToDraw[rowIdx + 1].item.src}]_vars

\* a second content page was started behind a full one
C8_Witness ==
  /\ Len(doc) = 3
  /\ Cardinality(RowsOnPage(doc, 2)) = 4
  /\ Cardinality(RowsOnPage(doc, 3)) = 1

\* ---------------------------------------------------------------- C9
RoomHeaderPlaces ==
  UNION {{<<i, k>> : k \in {j \in 1..Len(doc[i]) : doc[i][j].op = "roomHeader"}} :
           i \in 1..Len(doc)}

FirstSrcOfRoom(room) ==
  CHOOSE s \in 1..Len(selection) :
    /\ selection[s].Room = room
    /\ \A j \in 1..(s - 1) : selection[j].Room # room

\* C9: the header of a room is drawn once, in the row slot of the first row
\* of the room and before that row's images and text, and there is no room
\* header in the slot of any other row.
C9_RoomHeaders ==
  /\ \A h1, h2 \in RoomHeaderPlaces :
       doc[h1[1]][h1[2]].room = doc[h2[1]][h2[2]].room => h1 = h2
  /\ \A h \in RoomHeaderPlaces :
       doc[h[1]][h[2]].src = FirstSrcOfRoom(doc[h[1]][h[2]].room)
  /\ \A i \in 2..Len(doc) : \A k \in 1..Len(doc[i]) :
       LET o == doc[i][k] IN
       (o.op \in {"image", "text"} /\ o.src = FirstSrcOfRoom(o.room))
       => \E j \in 1..(k - 1) :
            /\ doc[i][j].op = "roomHeader"
            /\ doc[i][j].src = o.src
            /\ doc[i][j].room = o.room
            /\ doc[i][j].slot = o.slot

\* two rooms, one of them with two rows, all drawn
C9_Witness ==
  /\ Cardinality(RoomHeaderPlaces) = 2
  /\ Len(TextSrcSeq(doc)) = 3
  /\ Len(TextSrcSeq(doc)) = Len(selection)

\* --------------------------------------------------------------- C10
LastRowDrawn == phase \in {"failed", "emailOption", "csvForEmail", "merging", "done"}

PageLabels(page) == SelectSeq(page, LAMBDA o : o.op = "pageLabel")

\* C10: after the last row is drawn every content page carries one label
\* "Page X of Y", Y the number of content pages and X the page's position
\* among them, and the cover carries none.
C10_PageLabels ==
  LastRowDrawn =>
    /\ PageLabels(doc[1]) = <<>>
    /\ \A i \in 2..Len(doc) :
         /\ Len(PageLabels(doc[i])) = 1
         /\ PageLabels(doc[i])[1].n = i - 1
         /\ PageLabels(doc[i])[1].m = Len(doc) - 1

\* an export of two content pages is done
C10_Witness == phase = "done" /\ Len(doc) = 3 /\ Len(delivered) = 1

\* --------------------------------------------------------------- C11
\* the image step `which` of the stored row src has ended: there was nothing
\* to load, or the image was embedded, or it was given up
StepEnded(src, which) ==
  \/ ImageUrl([item |-> selection[src]], which) = ""
  \/ emailCompatible
  \/ HasImage(doc, src, which)
  \/ \E reason \in {"encode", "relays"} : <<src, which, reason>> \in skipped

\* the image step `which` of the stored row src has begun to load
StepLoading(src, which) ==
  /\ phase \in {"image", "retry"}
  /\ CurrentRow.item.src = src
  /\ attempt.which = which

ImagePlaces(src, which) ==
  UNION {{<<i, k>> : k \in {j \in 1..Len(doc[i]) :
                              /\ doc[i][j].op = "image"
                              /\ doc[i][j].src = src
                              /\ doc[i][j].which = which}} : i \in 1..Len(doc)}

TextPlaces(src) ==
  UNION {{<<i, k>> : k \in {j \in 1..Len(doc[i]) :
                              doc[i][j].op = "text" /\ doc[i][j].src = src}} :
           i \in 1..Len(doc)}

Before(a, b) == a[1] = b[1] /\ a[2] < b[2]

\* C11: in every row the text columns are drawn only after the product image
\* step and then the diagram image step have ended, in that order (the images
\* lie before the text on the page, the product image before the diagram),
\* and the diagram step is entered whatever the product step came to.
C11_RowPipeline ==
  \A src \in 1..Len(selection) :
    /\ LET images == ImagePlaces(src, "product") \cup ImagePlaces(src, "diagram")
           ended == /\ StepEnded(src, "product") /\ StepEnded(src, "diagram")
                    /\ ~StepLoading(src, "product") /\ ~StepLoading(src, "diagram")
       IN \A tp \in TextPlaces(src) :
            /\ ended
            /\ \A ip \in images : Before(ip, tp)
    /\ \A dp \in ImagePlaces(src, "diagram") :
         \A pp \in ImagePlaces(src, "product") : Before(pp, dp)
    /\ (StepLoading(src, "diagram") \/ HasImage(doc, src, "diagram")
          \/ \E reason \in {"encode", "relays"} : <<src, "diagram", reason>> \in skipped)
         => /\ StepEnded(src, "product")
            /\ selection[src].Image_URL # "" => ~StepLoading(src, "product")
    /\ (selection[src].Image_URL # "" /\ selection[src].Diagram_URL # ""
          /\ ~emailCompatible /\ ~StepLoading(src, "product")
          /\ (HasImage(doc, src, "product")
               \/ \E reason \in {"encode", "relays"} : <<src, "product", reason>> \in skipped))
         => (StepLoading(src, "diagram") \/ StepEnded(src, "diagram"))

\* the text of a row is drawn whose product image was given up on the relays
\* and whose diagram was embedded
C11_Witness ==
  \E src \in 1..Len(selection) :
    /\ TextPlaces(src) # {}
    /\ <<src, "product", "relays">> \in skipped
    /\ ImagePlaces(src, "diagram") # {}

\* --------------------------------------------------------------- C12
CoverOps == {"logoBlock", "customerLogo", "coverBody"}

CoverOpPlaces(kind) ==
  UNION {{<<i, k>> : k \in {j \in 1..Len(doc[i]) : doc[i][j].op = kind}} :
           i \in 1..Len(doc)}

\* C12: the cover is drawn once and never revisited: every cover drawing
\* operation (the logo block, the customer logo, the rest of the cover) is
\* applied once and to the cover page, and no operation is applied to the
\* cover once the first content page has been started.
C12_CoverDrawnOnce ==
  /\ [](\A kind \in CoverOps :
          /\ Cardinality(CoverOpPlaces(kind)) <= 1
          /\ \A pl \in CoverOpPlaces(kind) : pl[1] = 1)
  /\ [][Len(doc) >= 2 => doc'[1] = doc[1]]_vars

\* --------------------------------------------------------------- C13
\* doc.output('blob') has run and its result was handed on
HandedOn == phase \in {"csvForEmail", "merging", "done"}

\* C13: once the primary document is finalized and handed on for merging or
\* delivery, no drawing operation is applied to the jsPDF document any more,
\* whatever callbacks are still pending.
C13_NoDrawingAfterHandoff == [][HandedOn => doc' = doc]_vars

\* --------------------------------------------------------------- C14
\* the fourth component of a row load is the index of the relay that the
\* request goes through; an index outside the list is the image URL itself
ViaRelay(l) == l[4] \in 0..(NumProxies - 1)

\* a step in which the outstanding attempt ends without an answer that loads
AttemptFails ==
  /\ phase = "image"
  /\ CurrentLoad \notin loads'
  /\ ~HasImage(doc', CurrentRow.item.src, attempt.which)
  /\ <<CurrentRow.item.src, attempt.which, "encode">> \notin skipped'

RowGoesOn ==
  /\ <<CurrentRow.item.src, attempt.which, "relays">> \in skipped'
  /\ phase' \in {"image", "rows"}
  /\ IF attempt.which = "product" /\ CurrentRow.item.Diagram_URL # ""
     THEN /\ phase' = "image" /\ rowIdx' = rowIdx
          /\ attempt' = [which |-> "diagram", proxyIndex |-> 0]
     ELSE /\ HasOp(doc', "text", CurrentRow.item.src)
          /\ rowIdx' = rowIdx + 1

\* C14: a non-empty image URL is requested through the relays in list order,
\* the first relay first, never directly, one attempt at a time; every
\* outstanding attempt can time out; an attempt that fails or times out is
\* followed by the next relay, and after the last relay the image is
\* recorded as skipped and the row goes on.
C14_RelayOrder ==
  /\ [](/\ \A l \in RowLoads : ViaRelay(l)
        /\ Cardinality(RowLoads) <= 1
        /\ phase = "image" => (RowLoads = {CurrentLoad} /\ ENABLED imgTimeout)
        /\ phase = "retry" => (RowLoads = {} /\ attempt.proxyIndex \in 1..(NumProxies - 1)))
  /\ [][/\ \A l \in RowLoads' \ RowLoads :
             IF phase = "retry"
             THEN l = RowLoad(rowIdx, attempt.which, attempt.proxyIndex)
             ELSE l[4] = 0
         /\ AttemptFails =>
              IF attempt.proxyIndex + 1 < NumProxies
              THEN /\ phase' = "retry"
                   /\ attempt' = [attempt EXCEPT !.proxyIndex = @ + 1]
                   /\ skipped' = skipped /\ doc' = doc /\ rowIdx' = rowIdx
              ELSE RowGoesOn]_vars

\* the diagram of a row is requested through the second relay after its
\* product image was given up on both
C14_Witness ==
  /\ phase = "image"
  /\ attempt = [which |-> "diagram", proxyIndex |-> 1]
  /\ <<CurrentRow.item.src, "product", "relays">> \in skipped
  /\ CurrentLoad \in loads

\* --------------------------------------------------------------- C15
\* the values that stand for "no image": the empty URL, the token that
\* saveRowToStorage stores for a product without an image, and the token that
\* optimizeImageForPDF knows
PlaceholderTokens == {"", "assets/no-image.png", "N/A"}

\* a relay request was issued for the image `which` of the stored row src:
\* it is outstanding or about to be repeated, or it has ended one way or the
\* other
Requested(src, which) ==
  \/ StepLoading(src, which)
  \/ HasImage(doc, src, which)
  \/ \E reason \in {"encode", "relays"} : <<src, which, reason>> \in skipped

\* C15: for an image URL that is empty or a known placeholder token no relay
\* request is issued (none is outstanding, none has loaded) and no failure
\* is recorded.
C15_PlaceholderSkipped ==
  \A src \in 1..Len(selection) : \A which \in {"product", "diagram"} :
    ImageUrl([item |-> selection[src]], which) \in PlaceholderTokens
      => ~Requested(src, which)

\* --------------------------------------------------------------- C16
\* C16: in an export with userDetails.emailCompatible set no relay request is
\* ever issued and no image is embedded: every image reference of every row
\* is counted as attempted and as failed, and the row goes on to its text.
C16_EmailCompatibleSkipsImages ==
  emailCompatible =>
    /\ RowLoads = {}
    /\ phase \notin {"image", "retry"}
    /\ skipped = {}
    /\ \A src \in 1..Len(selection) : \A which \in {"product", "diagram"} :
         ~HasImage(doc, src, which)
    /\ stats.failedImages = stats.totalImages
    /\ stats.optimizedImages = 0
    /\ phase = "rows" =>
         stats.totalImages =
           Cardinality({<<q, which>> \in (1..rowIdx) \X {"product", "diagram"} :
                          ImageUrl(rowsToDraw[q], which) # ""})

\* an email-compatible export of a row with two image references is delivered
C16_Witness ==
  /\ emailCompatible
  /\ Len(delivered) = 1
  /\ stats.totalImages = 2
  /\ \E src \in 1..Len(selection) :
       /\ selection[src].Image_URL # "" /\ selection[src].Diagram_URL # ""
       /\ HasOp(delivered[1].pages, "text", src)

\* --------------------------------------------------------------- C17
ImageOps == OpsOfKind(doc, "image")

UrlOfOp(o) == ImageUrl([item |-> selection[o.src]], o.which)

\* C17: two rows with the same image URL have their images embedded under
\* the same cache key, so that the URL has one asset in the resources of the
\* document.  (Two calls of doc.addImage that name no alias are given the
\* benefit of the doubt: the key is then jsPDF's choice.)
C17_OneAssetPerUrl ==
  \A k1, k2 \in 1..Len(ImageOps) :
    (ImageOps[k1].src # ImageOps[k2].src /\ UrlOfOp(ImageOps[k1]) = UrlOfOp(ImageOps[k2]))
      => ImageOps[k1].alias = ImageOps[k2].alias

\* --------------------------------------------------------------- C18
SlotFails(upload, asset, e) == SlotConfigured(upload, asset) /\ ~SlotValid(upload, asset, e)

\* the pages a slot contributes: none when it fails
SlotContribution(slot, upload, asset, e) ==
  IF SlotFails(upload, asset, e) THEN <<>> ELSE SlotDocument(slot, upload, asset, e)

\* C18: when the merge itself succeeds, a slot whose source cannot be
\* fetched or does not parse gets a warning titled after that slot, and a
\* slot that does not fail gets none; the failing slot contributes no page
\* and the remaining pages come out in the normal order (cover, tip,
\* content, tail).  With a failing tip asset and no tail the output is the
\* primary page for page, with the tip warning and without a tail warning.
C18_SlotFailureWarns ==
  \A i \in 1..Len(delivered) :
    LET d == delivered[i]
        st == tipTailSettings
        tipFails == SlotFails(st.tipUpload, st.tipAsset, d.env.tip)
        tailFails == SlotFails(st.tailUpload, st.tailAsset, d.env.tail)
        tip == SlotContribution("tip", st.tipUpload, st.tipAsset, d.env.tip)
        tail == SlotContribution("tail", st.tailUpload, st.tailAsset, d.env.tail)
    IN (d.merged /\ st # NoSettings /\ d.env.mainOk /\ d.env.saveOk)
       => /\ ("Tip File Issue" \in notices) <=> tipFails
          /\ ("Tail File Issue" \in notices) <=> tailFails
          /\ "PDF Merging Error" \notin notices
          /\ d.pages = <<d.main[1]>> \o tip \o SubSeq(d.main, 2, Len(d.main)) \o tail
          /\ (tipFails /\ st.tipUpload = "" /\ ~SlotConfigured(st.tailUpload, st.tailAsset))
               => d.pages = d.main

\* a tip asset that cannot be fetched, no tail, a primary of three pages
C18_Witness ==
  \E i \in 1..Len(delivered) :
    LET d == delivered[i] IN
    /\ d.merged /\ d.env.mainOk /\ d.env.saveOk
    /\ tipTailSettings.tipAsset # "" /\ tipTailSettings.tipUpload = ""
    /\ ~SlotConfigured(tipTailSettings.tailUpload, tipTailSettings.tailAsset)
    /\ ~d.env.tip.fetchOk
    /\ Len(d.main) = 3
    /\ d.pages = d.main
    /\ notices = {"Tip File Issue"}

\* --------------------------------------------------------------- C19
MergeFails(env) == ~env.mainOk \/ ~env.saveOk

\* C19: when a slot is configured and the merge as a whole fails (the
\* primary cannot be reopened, or copying or saving throws), the merger
\* still answers, what it answers is the primary page for page, and the
\* failure is shown as a "PDF Merging Error" notice.
C19_TotalFailureReturnsPrimary ==
  \A i \in 1..Len(delivered) :
    LET d == delivered[i] IN
    (d.merged /\ tipTailSettings # NoSettings /\ MergeFails(d.env))
      => /\ d.pages = d.main
         /\ "PDF Merging Error" \in notices

\* the save throws after a valid two-page tip had been copied
C19_Witness ==
  \E i \in 1..Len(delivered) :
    LET d == delivered[i] IN
    /\ d.merged /\ d.env.mainOk /\ ~d.env.saveOk
    /\ tipTailSettings.tipAsset # "" /\ tipTailSettings.tipUpload = ""
    /\ d.env.tip.fetchOk /\ d.env.tip.assetValid /\ d.env.tip.assetPages = 2
    /\ Len(d.main) = 3
    /\ d.pages = d.main

\* --------------------------------------------------------------- C20
BothConfigured(upload, asset) == upload # "" /\ asset # ""

PagesFrom(pages, source) ==
  {k \in 1..Len(pages) : \E n \in 1..Len(pages[k]) :
     pages[k][n].op = "external" /\ pages[k][n].room = source}

\* C20: a slot with both an upload and an asset path is resolved from the
\* upload only: the asset path of that slot is never fetched, and no page of
\* the output comes from that slot's asset.
C20_UploadPrecedence ==
  \A i \in 1..Len(delivered) :
    LET d == delivered[i]
        st == tipTailSettings
        slotPages(slot) ==
          {k \in PagesFrom(d.pages, "asset") : \E n \in 1..Len(d.pages[k]) :
             d.pages[k][n].which = slot}
    IN d.merged =>
       /\ BothConfigured(st.tipUpload, st.tipAsset)
            => "tip" \notin d.fetched /\ slotPages("tip") = {}
       /\ BothConfigured(st.tailUpload, st.tailAsset)
            => "tail" \notin d.fetched /\ slotPages("tail") = {}

\* both configured for the tip, both sources good, one upload page against
\* two asset pages: the output carries the one upload page
C20_Witness ==
  \E i \in 1..Len(delivered) :
    LET d == delivered[i] IN
    /\ d.merged /\ d.env.mainOk /\ d.env.saveOk
    /\ BothConfigured(tipTailSettings.tipUpload, tipTailSettings.tipAsset)
    /\ ~SlotConfigured(tipTailSettings.tailUpload, tipTailSettings.tailAsset)
    /\ d.env.tip.uploadValid /\ d.env.tip.fetchOk /\ d.env.tip.assetValid
    /\ d.env.tip.uploadPages = 1 /\ d.env.tip.assetPages = 2
    /\ Len(d.pages) = Len(d.main) + 1
    /\ PagesFrom(d.pages, "upload") = {2}

\* --------------------------------------------------------------- C21
\* the export was ended by an exception of the writer after the last row:
\* caught by the try of line 675 ("failed") or by nobody ("thrown")
WriterFailed == phase \in {"failed", "thrown"}

\* C21: when the writer throws after the last row is drawn, the failure is
\* reported as an error and nothing is downloaded or emailed.
C21_WriterFailureReported ==
  WriterFailed => ("error: generating PDF" \in notices /\ delivered = <<>>)

\* --------------------------------------------------------------- C22
EmailOffer == "offer: email-compatible version"

EmailedIn(ds) == {i \in 1..Len(ds) : ds[i].sink = "email"}

RowsOfSnapshot == <<"rows", [i \in 1..Len(selection) |-> CsvRow(selection[i])]>>

C23_SnapshotImmutable ==
  /\ \A o \in {Flatten(doc)[k] : k \in 1..Len(Flatten(doc))} :
       o.op = "text" => (o.src \in 1..Len(selection) /\ o.room = selection[o.src].Room)
  /\ \A k \in 1..Len(delivered) :
       delivered[k].csv[1] = "rows" => delivered[k].csv = RowsOfSnapshot

\* ------------------------------------------------------------------ C29
\* generateCsvBlobAsync threw: its promise stays pending for ever
CsvFailed == phase = "csvHung"

\* C29: an export whose e-mail was requested and whose binary is within the
\* limit dispatches the sendEmail event exactly once: never twice, not while
\* the side file is awaited, and once also when producing the side file failed
C29_EmailDispatchedOnce ==
  /\ Cardinality(EmailedIn(delivered)) <= 1
  /\ phase = "csvForEmail" => EmailedIn(delivered) = {}
  /\ phase = "done" => Len(delivered) = 1
  /\ CsvFailed => Cardinality(EmailedIn(delivered)) = 1

\* ------------------------------------------------------------------ C28
\* C28: the continuation handed to drawImage is invoked exactly once on every
\* path, also when the continuation itself throws: the continuation of the
\* last image of a row draws the text of the row, so no row has its text
\* drawn twice, and a row that the export has left has it drawn once
C28_ContinuationOnce ==
  \A q \in 1..Len(rowsToDraw) :
    /\ Cardinality(TextPlaces(rowsToDraw[q].item.src)) <= 1
    /\ q <= rowIdx => Cardinality(TextPlaces(rowsToDraw[q].item.src)) = 1

\* ------------------------------------------------------------------ C24
\* C24: a price that is absent, is no number, is zero or is negative gives an
\* empty price cell and an empty total cell; any other price is read without
\* its thousands separators, and the total cell is the price times the
\* quantity: a quantity of 2 at 10.00 gives 20.00
C24_PriceCells ==
  (cells.drawn /\ userDetails = NoFlags) =>
    LET p == priceRow.RRP_INCGST
        v == CASE p = <<"1", "0", ".", "0", "0">> -> 1000
               [] p = <<"5">> -> 500
               [] p = <<"7", ".", "5">> -> 750
               [] p = <<" ", "1", "2">> -> 1200
               [] p = <<"1", ",", "2", "3", "4", ".", "5", "0">> -> 123450
               [] OTHER -> 0
        q == IF priceRow.Quantity = 0 THEN 1 ELSE priceRow.Quantity
    IN /\ v = 0 => (cells.price = <<"">> /\ cells.total = <<"">>)
       /\ v > 0 => /\ cells.price = <<"$" \o toFixed2(v)>>
                   /\ cells.total = <<"$" \o toFixed2(v * q)>>
       /\ (v = 1000 /\ q = 2) => cells.total = <<"$20.00">>

C24_Witness ==
  /\ cells.drawn
  /\ userDetails = NoFlags
  /\ priceRow = [RRP_INCGST |-> <<"1", ",", "2", "3", "4", ".", "5", "0">>, Quantity |-> 2]
  /\ cells.price = <<"$1234.50">>
  /\ cells.total = <<"$2469.00">>

\* ------------------------------------------------------------------ C25
\* C25 as stated: the price, the quantity and the total cell of a row are each
\* omitted whenever the exclude-price or the exclude-quantity flag is set
C25_AsStated ==
  (cells.drawn /\ (userDetails.excludePrice \/ userDetails.excludeQty)) =>
    (cells.price = <<>> /\ cells.qty = <<>> /\ cells.total = <<>>)

\* C25: the price and the total cell of a row are omitted whenever the
\* exclude-price or the exclude-quantity flag is set; the quantity cell is
\* omitted whenever the exclude-quantity flag is set, and is drawn when only
\* the exclude-price flag is set
C25_CellsOmitted ==
  cells.drawn =>
    /\ (userDetails.excludePrice \/ userDetails.excludeQty) =>
         (cells.price = <<>> /\ cells.total = <<>>)
    /\ userDetails.excludeQty => cells.qty = <<>>
    /\ (userDetails.excludePrice /\ ~userDetails.excludeQty) => cells.qty # <<>>

C25_Witness ==
  /\ cells.drawn
  /\ userDetails.excludePrice /\ ~userDetails.excludeQty
  /\ priceRow.Quantity = 2
  /\ cells.qty = <<"2">>
  /\ cells.price = <<>>

\* ------------------------------------------------------------------ C26
\* C26: for every combination of the two flags, the header of a page has the
\* title of the price, the quantity or the total column exactly when the rows
\* have the cell of that column drawn
C26_TitlesMatchCells ==
  (cells.drawn /\ titles # {}) =>
    /\ "Price ea inc GST" \in titles <=> cells.price # <<>>
    /\ "Qty" \in titles <=> cells.qty # <<>>
    /\ "Total" \in titles <=> cells.total # <<>>

C26_Witness ==
  /\ cells.drawn
  /\ userDetails.excludePrice /\ ~userDetails.excludeQty
  /\ titles = {"Code", "Description", "Qty"}
  /\ cells.qty # <<>>

\* ------------------------------------------------------------------ C27
\* C27 as stated: the size of the canvas has the aspect ratio of the decoded
\* image, and the larger of its width and its height is at most maxWidth
C27_AsStated ==
  canvas # NoSize =>
    /\ canvas.width * imgSize.height = canvas.height * imgSize.width
    /\ canvas.width <= imgSize.maxWidth
    /\ canvas.height <= imgSize.maxWidth

\* C27: the width of the canvas is at most maxWidth, and its height is the
\* height that keeps the aspect ratio of the decoded image, rounded to an
\* integer next to it (an image no wider than maxWidth keeps its size); the
\* height is not limited by maxWidth
C27_WidthBounded ==
  canvas # NoSize =>
    /\ canvas.width <= imgSize.maxWidth
    /\ canvas.width <= imgSize.width
    /\ imgSize.width <= imgSize.maxWidth => canvas.width = imgSize.width
    /\ 2 * (canvas.height * imgSize.width - canvas.width * imgSize.height) <= imgSize.width
    /\ 2 * (canvas.width * imgSize.height - canvas.height * imgSize.width) <= imgSize.width

C27_Witness ==
  /\ imgSize = [width |-> 5, height |-> 9, maxWidth |-> 3]
  /\ canvas = [width |-> 3, height |-> 5]

\* ------------------------------------------------------------------ C30
\* C30: after any sequence of operations of the grid (a product chosen in a
\* row, a quantity, a room or a note typed, a row removed) the store has one
\* entry for each row of the grid that has a product, and no other, with the
\* quantity, the room and the notes of that row
C30_StoreMirrorsGrid ==
  LET RowData(r) == <<r.product, r.quantity, r.room, r.notes>>
      rowsWith(d) == {i \in 1..Len(gridRows) :
                        gridRows[i].product # "" /\ RowData(gridRows[i]) = d}
      entriesWith(d) == {k \in 1..Len(selectedProducts) : RowData(selectedProducts[k]) = d}
      data == {RowData(gridRows[i]) : i \in {j \in 1..Len(gridRows) : gridRows[j].product # ""}}
                \cup {RowData(selectedProducts[k]) : k \in 1..Len(selectedProducts)}
  IN \A d \in data : Cardinality(rowsWith(d)) = Cardinality(entriesWith(d))

====
